---- MODULE Spec2Model ----
(***************************************************************************)
(* A model of the lazy tensor engine: the computation graph (Edge, OpNode, *)
(* CacheNode), the fusion rewriter run at node construction, the output    *)
(* layout rules and the evaluator (topological sort, reference counted     *)
(* computation cache, kernels).                                            *)
(*                                                                         *)
(* f64 values are modelled as exact rationals <<n, d>> in lowest terms     *)
(* with d > 0; every non-finite f64 (a division by zero and whatever is    *)
(* computed from it) is the single value NaN == <<0, 0>>.                  *)
(***************************************************************************)
EXTENDS Integers, Sequences, FiniteSets, TLC

VARIABLES
    nodes,      \* the graph members ever built, a handle is an index
    NEXT_ID,    \* the global id counter
    heap,       \* the Storage buffers ever allocated, indexed by storage
    live,       \* handles the user program still owns
    panic,      \* "none", or the fatal error that ended the program
    lastCall,   \* the last public call and its arguments
    lastMat,    \* what the last materialize() did
    applied,    \* per handle: the scalar ops the user applied, and to what
    yields,     \* per CacheNode: the TensorData its materializations gave
    slices,     \* the RawTensors and RawTensorSlices ever built, by index
    lastSlice,  \* the last call on a RawTensor or RawTensorSlice
    origin,     \* per member of slices: the call that built it
    pending,    \* the calls in flight: begun, not yet returned
    iterator    \* the iterator the program holds, and what it has given

vars == <<nodes, NEXT_ID, heap, live, panic, lastCall, lastMat, applied, yields,
          slices, lastSlice, origin, pending, iterator>>

----------------------------------------------------------------------------
(* Bounds of the model.                                                    *)

\* Members a program of Spec, SpecBuild, SpecChain, SpecDag, SpecSum,
\* SpecView, SpecSlice, SpecTranspose, SpecLayout, SpecChunk may build; the ranks,
\* extents and element counts of the shapes of SpecLayout.
MaxNodes == 2
MaxBuild == 3
MaxChain == 4
MaxDag == 4
MaxSum == 5
MaxView == 3
MaxSlice == 4
MaxTranspose == 3
MaxLayout == 1
MaxRank == 4
MaxDim == 3
MaxLen == 24
MaxChunk == 4
MaxOnce == 4
MaxPending == 2
MaxIds == 4
MaxNones == 2
MaxSteps == 4
\* More than the inputs of all members and the members together.
MaxLeft == 4 * MaxSteps

----------------------------------------------------------------------------
(* f64 arithmetic of NumberLike.                                           *)

Abs(x) == IF x < 0 THEN -x ELSE x

RECURSIVE GCD(_, _)
GCD(a, b) == IF b = 0 THEN a ELSE GCD(b, a % b)

NaN == <<0, 0>>

Rat(n, d) ==
    IF d = 0 THEN NaN
    ELSE LET g == GCD(Abs(n), Abs(d))
             s == IF d < 0 THEN -1 ELSE 1
         IN  <<(s * n) \div g, (s * d) \div g>>

Num(i) == <<i, 1>>

IsNaN(x) == x[2] = 0

RAdd(x, y) == IF IsNaN(x) \/ IsNaN(y) THEN NaN
              ELSE Rat(x[1] * y[2] + y[1] * x[2], x[2] * y[2])

RNeg(x) == IF IsNaN(x) THEN NaN ELSE <<-x[1], x[2]>>

RSub(x, y) == IF IsNaN(x) \/ IsNaN(y) THEN NaN
              ELSE Rat(x[1] * y[2] - y[1] * x[2], x[2] * y[2])

RMul(x, y) == IF IsNaN(x) \/ IsNaN(y) THEN NaN
              ELSE Rat(x[1] * y[1], x[2] * y[2])

RDiv(x, y) == IF IsNaN(x) \/ IsNaN(y) THEN NaN
              ELSE Rat(x[1] * y[2], x[2] * y[1])

----------------------------------------------------------------------------
(* Layout.                                                                 *)

Product(shape) ==
    LET p[i \in 0..Len(shape)] == IF i = 0 THEN 1 ELSE p[i - 1] * shape[i]
    IN  p[Len(shape)]

\* Strides that grow from the first dimension on (column-major).
calculate_dim_stride_column_major(shape) ==
    [i \in 1..Len(shape) |-> Product(SubSeq(shape, 1, i - 1))]

calculate_dim_stride(shape) ==
    LET n == Len(shape)
        v[i \in 1..n] == IF i = n THEN 1 ELSE shape[i + 1] * v[i + 1]
    IN  [i \in 1..n |-> v[i]]

Layout_from_shape(shape, offset) ==
    [shape      |-> shape,
     stride     |-> calculate_dim_stride(shape),
     adj_stride |-> [i \in 1..Len(shape) |-> 1],
     offset     |-> offset,
     len        |-> Product(shape)]

\* Layout::is_contiguous: from the last dimension back, each stride is
\* the product `acc` of the extents passed.
is_contiguous(layout) ==
    LET n == Len(layout.shape)
        acc[d \in 1..n] == IF d = n THEN 1 ELSE acc[d + 1] * layout.shape[d + 1]
    IN  /\ Len(layout.shape) = Len(layout.stride)
        /\ \A d \in 1..n : layout.stride[d] = acc[d]

Max0(x) == IF x < 0 THEN 0 ELSE x

\* A view that never compares the element counts.
Layout_view_unchecked(layout, shape) ==
    [ok |-> TRUE, err |-> "", layout |-> <<Layout_from_shape(shape, layout.offset)>>]

\* A view whose strides run column-major.
Layout_view_column_major(layout, shape) ==
    IF Max0(Product(shape)) # layout.len
    THEN [ok |-> FALSE, err |-> "InvalidViewShape", layout |-> <<>>]
    ELSE [ok |-> TRUE, err |-> "",
          layout |-> <<[Layout_from_shape(shape, layout.offset) EXCEPT
                          !.stride = [i \in 1..Len(shape) |->
                                         Product(SubSeq(shape, 1, i - 1))]]>>]

\* Result<Layout, OpError>: ok, and the layout or the error.
Layout_view(layout, shape) ==
    IF Max0(Product(shape)) # layout.len
    THEN [ok |-> FALSE, err |-> "InvalidViewShape", layout |-> <<>>]
    ELSE [ok |-> TRUE, err |-> "", layout |-> <<Layout_from_shape(shape, layout.offset)>>]

----------------------------------------------------------------------------
(* Strided traversal: the flat positions SliceIter reads, in order.        *)

\* The carry loop of next(): dims from `dim` down to the second.
RECURSIVE Carry(_, _, _, _)
Carry(counter, shape, dim, step_dim) ==
    IF dim < 2 THEN [counter |-> counter, step_dim |-> step_dim]
    ELSE IF counter[dim] = shape[dim]
         THEN Carry([counter EXCEPT ![dim] = 0, ![dim - 1] = @ + 1],
                    shape, dim - 1, dim - 1)
         ELSE [counter |-> counter, step_dim |-> step_dim]

\* One call of next(): the position read, and pos and counter after it.
SliceIter_next(pos, counter, shape, adj_stride, c) ==
    [ps |-> <<pos>>, pos |-> pos + adj_stride[c.step_dim], counter |-> c.counter]

\* The calls of `a`, then those of `b`.
SliceIter_join(a, b) == [ps |-> a.ps \o b.ps, pos |-> b.pos, counter |-> b.counter]

\* n calls of next() from (pos, counter): the positions read, in order, and
\* the iterator after them.  The calls are taken half by half.
RECURSIVE SliceIter_run(_, _, _, _, _)
SliceIter_then(a, shape, adj_stride, n) ==
    SliceIter_join(a, SliceIter_run(a.pos, a.counter, shape, adj_stride, n))

SliceIter_run(pos, counter, shape, adj_stride, n) ==
    IF n = 0 THEN [ps |-> <<>>, pos |-> pos, counter |-> counter]
    ELSE IF n = 1
    THEN SliceIter_next(pos, counter, shape, adj_stride,
                        Carry([counter EXCEPT ![Len(counter)] = @ + 1], shape,
                              Len(counter), Len(counter)))
    ELSE SliceIter_then(SliceIter_run(pos, counter, shape, adj_stride, n \div 2),
                        shape, adj_stride, n - (n \div 2))

SliceIter_walk(pos, counter, shape, adj_stride, left_over) ==
    SliceIter_run(pos, counter, shape, adj_stride, left_over).ps

SliceIter_positions(layout) ==
    SliceIter_walk(0, [i \in 1..Len(layout.shape) |-> 0], layout.shape,
                   layout.adj_stride, layout.len)

\* TensorData::copied_iter, collected: the elements in traversal order.
copied_iter(td, h) ==
    LET ps == SliceIter_positions(td.layout)
    IN  [k \in 1..Len(ps) |-> h[td.storage][ps[k] + 1]]

----------------------------------------------------------------------------
(* The op catalogue.                                                       *)

ScalarKinds == {"Sum", "Sub", "Mul", "Div"}
BinaryKinds == {"Add", "Sub", "Mul", "Div"}

\* OpScalarKind<T>
OpScalarKind(k, v) == [k |-> k, v |-> v]

\* OpKind<T>: the variant, the scalar ops it carries, the layout it carries.
OpKind(k, ops, view) == [k |-> k, ops |-> ops, view |-> view]

NoOp == OpKind("NoOp", <<>>, <<>>)
BinaryOp(k) == OpKind(k, <<>>, <<>>)
ScalarOp(s) == OpKind("ScalarOp", <<s>>, <<>>)
FusedScalar(ops) == OpKind("FusedScalar", ops, <<>>)
View(layout) == OpKind("View", <<>>, <<layout>>)
NoOpKind == OpKind("", <<>>, <<>>)

----------------------------------------------------------------------------
(* Graph members.  An Edge owns a TensorData; a Node owns op, inputs and   *)
(* layout; a Cache is a Node plus the once-filled slot.                    *)

TensorData(storage, layout) == [storage |-> storage, layout |-> layout]

TensorGraphEdge(id, data) ==
    [kind |-> "Edge", id |-> id, op |-> NoOpKind, inputs |-> <<>>,
     layout |-> data.layout, data |-> <<data>>, cache |-> <<>>]

TensorGraphNode(id, op, inputs, layout) ==
    [kind |-> "Node", id |-> id, op |-> op, inputs |-> inputs,
     layout |-> layout, data |-> <<>>, cache |-> <<>>]

TensorGraphCacheNode(node) == [node EXCEPT !.kind = "Cache"]

get_id(N, h) == N[h].id

\* A slot test that never sees the slot filled.
is_cache_filled_never(N, h) == FALSE

is_cache_filled(N, h) == N[h].cache # <<>>

get_inputs_layout(N, inputs) == [i \in 1..Len(inputs) |-> N[inputs[i]].layout]

----------------------------------------------------------------------------
(* The fusion rewriter.                                                    *)

Fusion(op, inputs) == [op |-> op, inputs |-> inputs]

\* A rule for two sums that chains them where the code adds the constants.
fuse_sum_scalar_chained(op1, inputs1, op2) ==
    Fusion(FusedScalar(<<op1, op2>>), inputs1)

fuse_sum_scalar(op1, inputs1, op2) ==
    LET s1 == IF op1.k = "Sum" THEN op1.v ELSE RNeg(op1.v)
        s2 == IF op2.k = "Sum" THEN op2.v ELSE RNeg(op2.v)
    IN  Fusion(ScalarOp(OpScalarKind("Sum", RAdd(s1, s2))), inputs1)

\* A rule for Div then Mul that divides the wrong way round.
fuse_mul_scalar_swapped(op1, inputs1, op2) ==
    IF op1.k = "Mul"
    THEN IF op2.k = "Mul"
         THEN Fusion(ScalarOp(OpScalarKind("Mul", RMul(op1.v, op2.v))), inputs1)
         ELSE Fusion(ScalarOp(OpScalarKind("Mul", RDiv(op1.v, op2.v))), inputs1)
    ELSE IF op2.k = "Mul"
         THEN Fusion(ScalarOp(OpScalarKind("Mul", RDiv(op1.v, op2.v))), inputs1)
         ELSE Fusion(ScalarOp(OpScalarKind("Div", RMul(op1.v, op2.v))), inputs1)

fuse_mul_scalar(op1, inputs1, op2) ==
    IF op1.k = "Mul"
    THEN IF op2.k = "Mul"
         THEN Fusion(ScalarOp(OpScalarKind("Mul", RMul(op1.v, op2.v))), inputs1)
         ELSE Fusion(ScalarOp(OpScalarKind("Mul", RDiv(op1.v, op2.v))), inputs1)
    ELSE IF op2.k = "Mul"
         THEN Fusion(ScalarOp(OpScalarKind("Mul", RDiv(op2.v, op1.v))), inputs1)
         ELSE Fusion(ScalarOp(OpScalarKind("Div", RMul(op1.v, op2.v))), inputs1)

fuse_scalars_into_combination(op1, inputs1, op2) ==
    Fusion(FusedScalar(<<op1, op2>>), inputs1)

fuse_scalars(op1, inputs1, op2) ==
    IF op1.k \in {"Sum", "Sub"}
    THEN IF op2.k \in {"Sum", "Sub"}
         THEN fuse_sum_scalar(op1, inputs1, op2)
         ELSE fuse_scalars_into_combination(op1, inputs1, op2)
    ELSE IF op2.k \in {"Mul", "Div"}
         THEN fuse_mul_scalar(op1, inputs1, op2)
         ELSE fuse_scalars_into_combination(op1, inputs1, op2)

fuse_scalar_combination(ops, inputs1, op2) ==
    LET tail == ops[Len(ops)]
        fused == fuse_scalars(tail, inputs1, op2)
        front == SubSeq(ops, 1, Len(ops) - 1)
        new_ops == IF fused.op.k = "FusedScalar"
                   THEN Append(front, op2)
                   ELSE Append(front, fused.op.ops[1])
    IN  Fusion(FusedScalar(new_ops), fused.inputs)

\* A compute_fusion that also folds a NoOp child into its scalar parent.
compute_fusion_noop(op1, inputs1, op2, inputs2, skip_input_idx) ==
    IF op1.k = "ScalarOp" /\ op2.k = "ScalarOp"
    THEN <<fuse_scalars(op1.ops[1], inputs1, op2.ops[1])>>
    ELSE IF op1.k = "FusedScalar" /\ op2.k = "ScalarOp"
         THEN <<fuse_scalar_combination(op1.ops, inputs1, op2.ops[1])>>
         ELSE IF op1.k \in {"ScalarOp", "FusedScalar"} /\ op2.k = "NoOp"
              THEN <<Fusion(op1, inputs1)>>
              ELSE <<>>

\* Option<Fusion>: the empty sequence is None.
compute_fusion(op1, inputs1, op2, inputs2, skip_input_idx) ==
    IF op1.k = "ScalarOp" /\ op2.k = "ScalarOp"
    THEN <<fuse_scalars(op1.ops[1], inputs1, op2.ops[1])>>
    ELSE IF op1.k = "FusedScalar" /\ op2.k = "ScalarOp"
         THEN <<fuse_scalar_combination(op1.ops, inputs1, op2.ops[1])>>
         ELSE <<>>

RECURSIVE try_fuse_loop(_, _, _, _)
try_fuse_loop(N, inputs, idx, current_fusion) ==
    IF idx > Len(inputs) THEN current_fusion
    ELSE LET inp == N[inputs[idx]]
             fused == IF inp.kind = "Edge" THEN <<>>
                      ELSE compute_fusion(inp.op, inp.inputs, current_fusion.op,
                                          current_fusion.inputs, idx)
         IN  try_fuse_loop(N, inputs, idx + 1,
                           IF fused # <<>> THEN fused[1] ELSE current_fusion)

try_fuse(N, op, inputs) == try_fuse_loop(N, inputs, 1, Fusion(op, inputs))

----------------------------------------------------------------------------
(* Output layout rules.                                                    *)

\* A compute_layout that compares the element counts, not the shapes.
compute_layout_by_len(op, inputs) ==
    IF op.k \in {"ScalarOp", "FusedScalar", "NoOp"}
    THEN [ok |-> TRUE, layout |-> <<inputs[1]>>, err |-> "",
          expected |-> <<>>, got |-> <<>>]
    ELSE IF op.k = "View"
    THEN [ok |-> TRUE, layout |-> <<op.view[1]>>, err |-> "",
          expected |-> <<>>, got |-> <<>>]
    ELSE IF inputs[1].len = inputs[2].len
    THEN [ok |-> TRUE, layout |-> <<inputs[1]>>, err |-> "",
          expected |-> <<>>, got |-> <<>>]
    ELSE [ok |-> FALSE, layout |-> <<>>, err |-> "NotSameShape",
          expected |-> inputs[1].shape, got |-> inputs[1].shape]

\* Result<Layout, OpError>
compute_layout(op, inputs) ==
    IF op.k \in {"ScalarOp", "FusedScalar", "NoOp"}
    THEN [ok |-> TRUE, layout |-> <<inputs[1]>>, err |-> "",
          expected |-> <<>>, got |-> <<>>]
    ELSE IF op.k = "View"
    THEN [ok |-> TRUE, layout |-> <<op.view[1]>>, err |-> "",
          expected |-> <<>>, got |-> <<>>]
    ELSE IF inputs[1].shape = inputs[2].shape
    THEN [ok |-> TRUE, layout |-> <<inputs[1]>>, err |-> "",
          expected |-> <<>>, got |-> <<>>]
    ELSE [ok |-> FALSE, layout |-> <<>>, err |-> "NotSameShape",
          expected |-> inputs[1].shape, got |-> inputs[1].shape]

----------------------------------------------------------------------------
(* Kernels.                                                                *)

PACKING_BUFFER_SIZE == 128

\* cblas_dscal(N, alpha, X, 1): X := alpha * X
cblas_dscal(alpha, X) == [i \in 1..Len(X) |-> RMul(alpha, X[i])]

\* vdAdd, vdSub, vdMul, vdDiv of the vector math library, on one element.
vd(k, a, b) ==
    CASE k = "Add" -> RAdd(a, b)
      [] k = "Sub" -> RSub(a, b)
      [] k = "Mul" -> RMul(a, b)
      [] OTHER     -> RDiv(a, b)

compute_scalar_op(op, input) ==
    CASE op.k = "Sum" -> [i \in 1..Len(input) |-> RAdd(input[i], op.v)]
      [] op.k = "Sub" -> [i \in 1..Len(input) |-> RAdd(input[i], op.v)]
      [] op.k = "Mul" -> cblas_dscal(op.v, input)
      [] OTHER        -> cblas_dscal(op.v, input)

RECURSIVE compute_fused(_, _, _)
compute_fused(ops, i, buffer) ==
    IF i > Len(ops) THEN buffer
    ELSE compute_fused(ops, i + 1, compute_scalar_op(ops[i], buffer))

Min(a, b) == IF a < b THEN a ELSE b

\* The chunked iterator: contiguous runs of at most PACKING_BUFFER_SIZE
\* elements of the traversal, each with its absolute position.
packed_iter(td, h) ==
    LET els == copied_iter(td, h)
        n == Len(els)
        chunks == (n + PACKING_BUFFER_SIZE - 1) \div PACKING_BUFFER_SIZE
    IN  [c \in 1..chunks |->
            [absolute_buffer_position |-> (c - 1) * PACKING_BUFFER_SIZE,
             packing_buffer |-> SubSeq(els, (c - 1) * PACKING_BUFFER_SIZE + 1,
                                       Min(c * PACKING_BUFFER_SIZE, n))]]

\* One vector call: output[abs + i] := output[abs + i] op chunk[i].
vd_chunk(k, output_data, chunk) ==
    [i \in 1..Len(output_data) |->
        LET j == i - chunk.absolute_buffer_position
        IN  IF j >= 1 /\ j <= Len(chunk.packing_buffer)
            THEN vd(k, output_data[i], chunk.packing_buffer[j])
            ELSE output_data[i]]

\* A loop that takes the first chunk and no other.
compute_binary_first_chunk(k, output_data, chunks, c) ==
    IF Len(chunks) = 0 THEN output_data ELSE vd_chunk(k, output_data, chunks[1])

RECURSIVE compute_binary(_, _, _, _)
compute_binary(k, output_data, chunks, c) ==
    IF c > Len(chunks) THEN output_data
    ELSE compute_binary(k, vd_chunk(k, output_data, chunks[c]), chunks, c + 1)

\* TensorData::from_vec: a fresh Storage, a row-major layout.
TensorData_from_vec(vector, shape, h) ==
    [td |-> TensorData(Len(h) + 1, Layout_from_shape(shape, 0)),
     heap |-> Append(h, vector)]

\* A scalar kernel that writes its result into the buffer of its input.
cpu_compute_op_f64_in_place(op, inputs, h) ==
    CASE op.k = "ScalarOp" ->
            [td |-> TensorData(inputs[1].storage,
                               Layout_from_shape(inputs[1].layout.shape, 0)),
             heap |-> [h EXCEPT ![inputs[1].storage] =
                          compute_scalar_op(op.ops[1], copied_iter(inputs[1], h))]]
      [] op.k = "FusedScalar" ->
            TensorData_from_vec(compute_fused(op.ops, 1, copied_iter(inputs[1], h)),
                                inputs[1].layout.shape, h)
      [] op.k = "View" ->
            [td |-> TensorData(inputs[1].storage, op.view[1]), heap |-> h]
      [] op.k = "NoOp" ->
            [td |-> inputs[1], heap |-> h]
      [] OTHER ->
            TensorData_from_vec(compute_binary(op.k, copied_iter(inputs[1], h),
                                               packed_iter(inputs[2], h), 1),
                                inputs[1].layout.shape, h)

\* The TensorData the kernel returns, and the heap after it.
cpu_compute_op_f64(op, inputs, h) ==
    CASE op.k = "ScalarOp" ->
            TensorData_from_vec(compute_scalar_op(op.ops[1], copied_iter(inputs[1], h)),
                                inputs[1].layout.shape, h)
      [] op.k = "FusedScalar" ->
            TensorData_from_vec(compute_fused(op.ops, 1, copied_iter(inputs[1], h)),
                                inputs[1].layout.shape, h)
      [] op.k = "View" ->
            [td |-> TensorData(inputs[1].storage, op.view[1]), heap |-> h]
      [] op.k = "NoOp" ->
            [td |-> inputs[1], heap |-> h]
      [] OTHER ->
            TensorData_from_vec(compute_binary(op.k, copied_iter(inputs[1], h),
                                               packed_iter(inputs[2], h), 1),
                                inputs[1].layout.shape, h)

cpu_compute(op, inputs, h) == cpu_compute_op_f64(op, inputs, h)

----------------------------------------------------------------------------
(* The evaluator.                                                          *)

EmptyMap == [x \in {} |-> 0]

RECURSIVE Reverse(_)
Reverse(q) == IF q = <<>> THEN <<>> ELSE Append(Reverse(Tail(q)), Head(q))

\* The while loop of topological_sort over the work queue current_inputs.
RECURSIVE topological_sort_loop(_, _, _, _)
topological_sort_loop(N, current_inputs, sorted, reference_counter) ==
    IF current_inputs = <<>>
    THEN [sorted |-> sorted, reference_counter |-> reference_counter]
    ELSE LET inp == Head(current_inputs)
             id == get_id(N, inp)
         IN  IF id \in DOMAIN reference_counter
             THEN topological_sort_loop(N, Tail(current_inputs), sorted,
                      [reference_counter EXCEPT ![id] = @ + 1])
             ELSE LET more == IF N[inp].kind = "Edge" THEN <<>>
                              ELSE IF N[inp].kind = "Node" THEN N[inp].inputs
                              ELSE IF ~is_cache_filled(N, inp) THEN N[inp].inputs
                              ELSE <<>>
                  IN  topological_sort_loop(N, Tail(current_inputs) \o more,
                          Append(sorted, inp), (id :> 1) @@ reference_counter)

topological_sort(N, h) == topological_sort_loop(N, N[h].inputs, <<>>, EmptyMap)

\* A remove that leaves the entry in the map.
MapRemove_keeps(m, k) == m

\* HashMap::remove
MapRemove(m, k) == [x \in DOMAIN m \ {k} |-> m[x]]

\* The loop of get_inputs_tensor_data.  A missing refcount entry is the
\* unreachable!() panic; a missing computation-cache entry is the panic of
\* unwrap() on None (a count of 0 underflows or finds the entry removed).
RECURSIVE get_inputs_loop(_, _, _, _, _, _)
get_inputs_loop(N, inputs, i, inputs_data, computation_cache, reference_counter) ==
    IF i > Len(inputs)
    THEN [data |-> inputs_data, cache |-> computation_cache,
          refs |-> reference_counter, panic |-> "none"]
    ELSE LET id == get_id(N, inputs[i])
         IN  IF id \notin DOMAIN reference_counter
             THEN [data |-> inputs_data, cache |-> computation_cache,
                   refs |-> reference_counter, panic |-> "unreachable"]
             ELSE IF reference_counter[id] = 0 \/ id \notin DOMAIN computation_cache
             THEN [data |-> inputs_data, cache |-> computation_cache,
                   refs |-> reference_counter, panic |-> "unwrap_none"]
             ELSE IF reference_counter[id] = 1
             THEN get_inputs_loop(N, inputs, i + 1,
                      Append(inputs_data, computation_cache[id]),
                      MapRemove(computation_cache, id),
                      [reference_counter EXCEPT ![id] = 0])
             ELSE get_inputs_loop(N, inputs, i + 1,
                      Append(inputs_data, computation_cache[id]),
                      computation_cache,
                      [reference_counter EXCEPT ![id] = @ - 1])

get_inputs_tensor_data(N, inputs, computation_cache, reference_counter) ==
    get_inputs_loop(N, inputs, 1, <<>>, computation_cache, reference_counter)

\* The state of one compute(): the graph (with the cache slots), the
\* computation cache, the refcount map, the heap, the handles whose op was
\* dispatched to cpu_compute (in order), the CacheNode outputs, the panic.
Env(N, cc, rc, h, order, ys, pn) ==
    [N |-> N, cache |-> cc, refs |-> rc, heap |-> h, order |-> order,
     yields |-> ys, panic |-> pn]

\* Take the inputs of node n, run its op; the Env after it and the result.
run_op_finish(E, n, g, r) ==
    [E |-> [E EXCEPT !.cache = g.cache, !.refs = g.refs,
                     !.heap = r.heap, !.order = Append(@, n)],
     result |-> <<r.td>>]

run_op_with(E, n, g) ==
    IF g.panic # "none"
    THEN [E |-> [E EXCEPT !.cache = g.cache, !.refs = g.refs, !.panic = g.panic],
          result |-> <<>>]
    ELSE run_op_finish(E, n, g, cpu_compute(E.N[n].op, g.data, E.heap))

run_op(E, n) ==
    run_op_with(E, n, get_inputs_tensor_data(E.N, E.N[n].inputs, E.cache, E.refs))

\* A cell whose set replaces the value it holds.
OnceCell_set_overwrites(slot, value) == <<value>>

\* OnceCell::set: the value is stored if the cell is empty and refused
\* otherwise.
OnceCell_set(slot, value) == IF slot = <<>> THEN <<value>> ELSE slot

\* computation_cache.insert of the result r of node n; a CacheNode also
\* sets its slot.
insert_result(n, r, is_cache) ==
    IF r.result = <<>> THEN r.E
    ELSE IF is_cache
    THEN [r.E EXCEPT !.cache = (r.E.N[n].id :> r.result[1]) @@ @,
                     !.N[n].cache = OnceCell_set(@, r.result[1]),
                     !.yields[n] = Append(@, r.result[1])]
    ELSE [r.E EXCEPT !.cache = (r.E.N[n].id :> r.result[1]) @@ @]

\* One iteration of the walk of compute() over the sorted nodes.
compute_step(E, n) ==
    IF E.N[n].kind = "Edge"
    THEN [E EXCEPT !.cache = (E.N[n].id :> E.N[n].data[1]) @@ @]
    ELSE IF E.N[n].kind = "Cache" /\ is_cache_filled(E.N, n)
    THEN [E EXCEPT !.cache = (E.N[n].id :> E.N[n].cache[1]) @@ @,
                   !.yields[n] = Append(@, E.N[n].cache[1])]
    ELSE insert_result(n, run_op(E, n), E.N[n].kind = "Cache")

RECURSIVE compute_walk(_, _, _)
compute_walk(E, sorted_dag, i) ==
    IF i = 0 \/ E.panic # "none" THEN E
    ELSE compute_walk(compute_step(E, sorted_dag[i]), sorted_dag, i - 1)

\* The last two statements of compute(): the root's inputs and its op.
compute_root(E, h) ==
    IF E.panic # "none" THEN [E |-> E, result |-> <<>>] ELSE run_op(E, h)

compute_sorted(N, h, hp, ys, s) ==
    compute_root(compute_walk(Env(N, EmptyMap, s.reference_counter, hp, <<>>, ys, "none"),
                              s.sorted, Len(s.sorted)),
                 h)

\* TensorGraphNode::compute on the node of handle h.
TensorGraphNode_compute(N, h, hp, ys) ==
    compute_sorted(N, h, hp, ys, topological_sort(N, h))

\* A cache.set that stores a detached copy of the buffer (clone_detached)
\* where the code stores a reference to it.
cache_set_detached(h, r) ==
    IF r.result = <<>> THEN r
    ELSE [E |-> [r.E EXCEPT
                   !.N[h].cache = <<TensorData(Len(r.E.heap) + 1, r.result[1].layout)>>,
                   !.heap = Append(@, r.E.heap[r.result[1].storage]),
                   !.yields[h] = Append(@, r.result[1])],
          result |-> r.result]

\* cache.set(tensor.clone_reference()) and the return of the tensor.
cache_set(h, r) ==
    IF r.result = <<>> THEN r
    ELSE [E |-> [r.E EXCEPT !.N[h].cache = OnceCell_set(@, r.result[1]),
                            !.yields[h] = Append(@, r.result[1])],
          result |-> r.result]

\* TensorGraphCacheNode::compute on the CacheNode of handle h.
TensorGraphCacheNode_compute(N, h, hp, ys) ==
    IF is_cache_filled(N, h)
    THEN [E |-> Env(N, EmptyMap, EmptyMap, hp, <<>>,
                    [ys EXCEPT ![h] = Append(@, N[h].cache[1])], "none"),
          result |-> N[h].cache]
    ELSE cache_set(h, TensorGraphNode_compute(N, h, hp, ys))

compute(N, h, hp, ys) ==
    IF N[h].kind = "Cache" THEN TensorGraphCacheNode_compute(N, h, hp, ys)
    ELSE TensorGraphNode_compute(N, h, hp, ys)

----------------------------------------------------------------------------
(* Node construction.                                                      *)

\* TensorGraphNode::new: fuse, compute the layout, panic on Err, take an id.
new_with_layout(id, fused, layout) ==
    IF ~layout.ok THEN [ok |-> FALSE, node |-> <<>>, err |-> layout]
    ELSE [ok |-> TRUE, err |-> layout,
          node |-> <<TensorGraphNode(id, fused.op, fused.inputs, layout.layout[1])>>]

new_fused(N, id, fused) ==
    new_with_layout(id, fused, compute_layout(fused.op, get_inputs_layout(N, fused.inputs)))

TensorGraphNode_new(N, id, op, inputs) == new_fused(N, id, try_fuse(N, op, inputs))

\* TensorGraphNode::with_layout: fuse, take an id, keep the given layout.
with_layout_fused(id, fused, layout) ==
    TensorGraphNode(id, fused.op, fused.inputs, layout)

TensorGraphNode_with_layout(N, id, op, inputs, layout) ==
    with_layout_fused(id, try_fuse(N, op, inputs), layout)

----------------------------------------------------------------------------
(* The user program: the public calls, one action each.                    *)

NoCall == [name |-> "", op |-> NoOpKind, args |-> <<>>, node |-> 0, err |-> "",
           expected |-> <<>>, got |-> <<>>, shape |-> <<>>, idBefore |-> 0,
           nBefore |-> 0]

Call(name, op, args, node, err) ==
    [name |-> name, op |-> op, args |-> args, node |-> node, err |-> err,
     expected |-> <<>>, got |-> <<>>, shape |-> <<>>, idBefore |-> NEXT_ID,
     nBefore |-> Len(nodes)]

NoIterator == [kind |-> "none"]

NoMat == [root |-> 0, returned |-> FALSE, result |-> <<>>, cache |-> EmptyMap,
          refs |-> EmptyMap, order |-> <<>>, filled |-> {}]

Self(h) == [base |-> h, ops |-> <<>>]

NoSlice == [name |-> "", container |-> 0, range |-> <<>>, axis |-> 0, result |-> 0,
            yields |-> <<>>]

Init ==
    /\ nodes = <<>>
    /\ NEXT_ID = 0
    /\ heap = <<>>
    /\ live = {}
    /\ panic = "none"
    /\ lastCall = NoCall
    /\ lastMat = NoMat
    /\ applied = <<>>
    /\ yields = <<>>
    /\ slices = <<>>
    /\ lastSlice = NoSlice
    /\ origin = <<>>
    /\ pending = <<>>
    /\ iterator = NoIterator

\* A counter that keeps its value.
fetch_add_stale(counter, val) == counter

\* A counter that counts downwards.
fetch_add_down(counter, val) == counter - val

\* AtomicUsize::fetch_add: the value the counter holds after it; the value
\* returned is the one it held before.
fetch_add(counter, val) == counter + val

\* A node joins the graph under a new handle, which the user holds.
Publish(node, drop, app) ==
    /\ nodes' = Append(nodes, node)
    /\ live' = (live \ drop) \cup {Len(nodes) + 1}
    /\ applied' = Append(applied, IF app = <<>> THEN Self(Len(nodes) + 1) ELSE app[1])
    /\ yields' = Append(yields, <<>>)

\* A node takes the next id and joins the graph.
AddNode(node, drop, app) ==
    /\ Publish(node, drop, app)
    /\ NEXT_ID' = fetch_add(NEXT_ID, 1)

\* srange!(size, shape): Tensor::from_vec over 0, 1, .., size - 1.
NewTensor(shape, max) ==
    /\ panic = "none"
    /\ Len(nodes) < max
    /\ LET r == TensorData_from_vec([k \in 1..Product(shape) |-> Num(k - 1)], shape, heap)
       IN  /\ heap' = r.heap
           /\ AddNode(TensorGraphEdge(NEXT_ID, r.td), {}, <<>>)
    /\ lastCall' = Call("from_vec", NoOpKind, <<>>, Len(nodes) + 1, "")
    /\ UNCHANGED <<panic, lastMat, slices, lastSlice, origin, pending, iterator>>

\* A node built by TensorPromise::new joins the graph.
AddBuilt(r, drop, app) == AddNode(r.node[1], drop, app)

\* Tensor::as_promise
AsPromise(t, max) ==
    /\ panic = "none"
    /\ Len(nodes) < max
    /\ t \in live /\ nodes[t].kind = "Edge"
    /\ AddBuilt(TensorGraphNode_new(nodes, NEXT_ID, NoOp, <<t>>), {}, <<>>)
    /\ lastCall' = Call("as_promise", NoOp, <<t>>, Len(nodes) + 1, "")
    /\ UNCHANGED <<heap, panic, lastMat, slices, lastSlice, origin, pending, iterator>>

\* add_scalar_impl, sub_scalar_impl, mul_scalar_impl, div_scalar_impl: the
\* operator on a reference, or on the value (which gives up the operand).
ScalarBuild(h, sop, by_value, max) ==
    /\ panic = "none"
    /\ Len(nodes) < max
    /\ h \in live
    /\ AddBuilt(TensorGraphNode_new(nodes, NEXT_ID, ScalarOp(sop), <<h>>),
                IF by_value THEN {h} ELSE {},
                <<[base |-> applied[h].base, ops |-> Append(applied[h].ops, sop)]>>)
    /\ lastCall' = Call("scalar", ScalarOp(sop), <<h>>, Len(nodes) + 1, "")
    /\ UNCHANGED <<heap, panic, lastMat, slices, lastSlice, origin, pending, iterator>>

\* The rest of a binary operator once compute_layout has answered.
BinaryBuilt(k, lhs, rhs, max, layout) ==
    IF ~layout.ok
    THEN /\ panic' = layout.err
         /\ lastCall' = [Call("binary", BinaryOp(k), <<lhs, rhs>>, 0, layout.err)
                           EXCEPT !.expected = layout.expected, !.got = layout.got]
         /\ UNCHANGED <<nodes, NEXT_ID, live, applied, yields>>
    ELSE /\ Len(nodes) < max
         /\ AddNode(TensorGraphNode_with_layout(nodes, NEXT_ID, BinaryOp(k),
                                                <<lhs, rhs>>, layout.layout[1]),
                    {}, <<>>)
         /\ lastCall' = Call("binary", BinaryOp(k), <<lhs, rhs>>, Len(nodes) + 1, "")
         /\ UNCHANGED panic

\* add_tensor_impl, sub_tensor_impl, mul_tensor_impl, div_tensor_impl
BinaryBuild(k, lhs, rhs, max) ==
    /\ panic = "none"
    /\ lhs \in live /\ rhs \in live
    /\ BinaryBuilt(k, lhs, rhs, max,
                   compute_layout(BinaryOp(k), <<nodes[lhs].layout, nodes[rhs].layout>>))
    /\ UNCHANGED <<heap, lastMat, slices, lastSlice, origin, pending, iterator>>

\* The rest of view_impl once Layout::view has answered.
ViewBuilt(h, shape, max, layout) ==
    IF ~layout.ok
    THEN /\ lastCall' = [Call("view", NoOpKind, <<h>>, 0, layout.err)
                           EXCEPT !.shape = shape]
         /\ lastCall' # lastCall
         /\ UNCHANGED <<nodes, NEXT_ID, live, applied, yields>>
    ELSE /\ Len(nodes) < max
         /\ AddBuilt(TensorGraphNode_new(nodes, NEXT_ID, View(layout.layout[1]), <<h>>),
                     {}, <<>>)
         /\ lastCall' = [Call("view", View(layout.layout[1]), <<h>>, Len(nodes) + 1, "")
                           EXCEPT !.shape = shape]

\* view_impl: the error is returned as a value, a valid view builds a node.
ViewBuild(h, shape, max) ==
    /\ panic = "none"
    /\ h \in live
    /\ ViewBuilt(h, shape, max, Layout_view(nodes[h].layout, shape))
    /\ UNCHANGED <<heap, panic, lastMat, slices, lastSlice, origin, pending, iterator>>

CacheBuilt(r, drop) == AddNode(TensorGraphCacheNode(r.node[1]), drop, <<>>)

\* TensorPromise::cache: the promise is given up for the CachedPromise.
CacheBuild(p, max) ==
    /\ panic = "none"
    /\ Len(nodes) < max
    /\ p \in live /\ nodes[p].kind = "Node"
    /\ CacheBuilt(TensorGraphNode_new(nodes, NEXT_ID, NoOp, <<p>>), {p})
    /\ lastCall' = Call("cache", NoOp, <<p>>, Len(nodes) + 1, "")
    /\ UNCHANGED <<heap, panic, lastMat, slices, lastSlice, origin, pending, iterator>>

Range(q) == {q[i] : i \in 1..Len(q)}

\* The members reachable from those of `seen` along inputs, the inputs of
\* the members of `stop` not followed.
RECURSIVE Reach(_, _, _)
Reach(N, seen, stop) ==
    IF UNION {Range(N[n].inputs) : n \in seen \ stop} \subseteq seen THEN seen
    ELSE Reach(N, seen \cup UNION {Range(N[n].inputs) : n \in seen \ stop}, stop)

\* The CacheNodes whose slot holds a value.
FilledCaches(N) == {c \in 1..Len(N) : N[c].kind = "Cache" /\ N[c].cache # <<>>}

\* The rest of materialize() once compute() has answered r: a panic ends
\* the program; otherwise Tensor::from_data wraps the result in a new Edge,
\* and the user keeps that Tensor or drops it.
Materialized(h, keep, r) ==
    /\ lastMat' = [root |-> h, returned |-> r.result # <<>>, result |-> r.result,
                   cache |-> r.E.cache, refs |-> r.E.refs, order |-> r.E.order,
                   filled |-> FilledCaches(nodes)]
    /\ heap' = r.E.heap
    /\ panic' = r.E.panic
    /\ IF r.result = <<>>
       THEN /\ nodes' = r.E.N
            /\ yields' = r.E.yields
            /\ lastCall' = Call("materialize", NoOpKind, <<h>>, 0, r.E.panic)
            /\ UNCHANGED <<NEXT_ID, live, applied>>
       ELSE /\ NEXT_ID' = fetch_add(NEXT_ID, 1)
            /\ lastCall' = Call("materialize", NoOpKind, <<h>>,
                                IF keep THEN Len(nodes) + 1 ELSE 0, "")
            /\ IF keep
               THEN /\ nodes' = Append(r.E.N, TensorGraphEdge(NEXT_ID, r.result[1]))
                    /\ live' = (live \ {h}) \cup {Len(nodes) + 1}
                    /\ applied' = Append(applied, Self(Len(nodes) + 1))
                    /\ yields' = Append(r.E.yields, <<>>)
               ELSE /\ nodes' = r.E.N
                    /\ live' = live \ {h}
                    /\ yields' = r.E.yields
                    /\ UNCHANGED applied

\* RawTensorPromise::materialize
Materialize(h, keep, max) ==
    /\ panic = "none"
    /\ h \in live /\ nodes[h].kind \in {"Node", "Cache"}
    /\ keep => Len(nodes) < max
    /\ Materialized(h, keep, compute(nodes, h, heap, yields))
    /\ UNCHANGED <<slices, lastSlice, origin, pending, iterator>>

----------------------------------------------------------------------------
(* materialize() in steps.  A call stops between the kernel of a CacheNode *)
(* whose slot it found empty and the cache.set that follows; other calls   *)
(* run in between.                                                         *)

\* The walk of compute() from sorted_dag[i] down to the kernel of the next
\* CacheNode found empty, whose result is then at hand and not yet set.
walk_stopped(i, r) == [E |-> r.E, i |-> i, result |-> r.result]

RECURSIVE walk_to_set(_, _, _)
walk_to_set(E, sorted_dag, i) ==
    IF i = 0 \/ E.panic # "none" THEN [E |-> E, i |-> 0, result |-> <<>>]
    ELSE IF E.N[sorted_dag[i]].kind = "Cache" /\ ~is_cache_filled(E.N, sorted_dag[i])
    THEN walk_stopped(i, run_op(E, sorted_dag[i]))
    ELSE walk_to_set(compute_step(E, sorted_dag[i]), sorted_dag, i - 1)

\* The graph, the heap and the outputs are shared: a call reads them anew
\* when it goes on.
Refreshed(E) == [E EXCEPT !.N = nodes, !.heap = heap, !.yields = yields]
Detached(E) == [E EXCEPT !.N = <<>>, !.heap = <<>>, !.yields = <<>>]

\* let _ = cache.set(result.clone_reference()) of CacheNode n in the walk,
\* and computation_cache.insert of the result.
set_in_walk(E, n, result) ==
    [E EXCEPT !.N[n].cache = OnceCell_set(@, result),
              !.cache = (E.N[n].id :> result) @@ @,
              !.yields[n] = Append(@, result)]

\* let _ = self.cache.set(tensor.clone_reference()) of the root CacheNode.
set_at_root(E, h, tensor) ==
    [E EXCEPT !.N[h].cache = OnceCell_set(@, tensor),
              !.yields[h] = Append(@, tensor)]

Remove(q, j) == SubSeq(q, 1, j - 1) \o SubSeq(q, j + 1, Len(q))

\* The call on h stops before a cache.set, with the tensor to set at hand.
Stop(h, E, sorted_dag, i, at, tensor, rest) ==
    /\ pending' = Append(rest, [call |-> "compute", root |-> h, E |-> Detached(E),
                                sorted |-> sorted_dag, i |-> i, at |-> at,
                                tensor |-> tensor])
    /\ nodes' = E.N
    /\ heap' = E.heap
    /\ yields' = E.yields
    /\ live' = live \ {h}
    /\ UNCHANGED <<NEXT_ID, panic, lastCall, lastMat, applied>>

\* compute() has answered r: materialize() returns or panics.
Finish(h, r, rest) ==
    /\ Materialized(h, FALSE, r)
    /\ pending' = rest

\* The root's kernel has answered r; a root CacheNode then sets its slot.
AfterRoot(h, r, sorted_dag, rest) ==
    IF r.result # <<>> /\ nodes[h].kind = "Cache"
    THEN Stop(h, r.E, sorted_dag, 0, "root", r.result[1], rest)
    ELSE Finish(h, r, rest)

\* The call on h goes on from where the walk w has come to.
Advance(h, w, sorted_dag, rest) ==
    IF w.E.panic # "none" THEN Finish(h, [E |-> w.E, result |-> <<>>], rest)
    ELSE IF w.result # <<>>
    THEN Stop(h, w.E, sorted_dag, w.i, "node", w.result[1], rest)
    ELSE AfterRoot(h, run_op(w.E, h), sorted_dag, rest)

Begun(h, s, rest) ==
    Advance(h, walk_to_set(Env(nodes, EmptyMap, s.reference_counter, heap, <<>>,
                               yields, "none"),
                           s.sorted, Len(s.sorted)),
            s.sorted, rest)

\* materialize() is called on h and runs up to its first cache.set.
ComputeBegin(h, max) ==
    /\ panic = "none"
    /\ h \in live /\ nodes[h].kind \in {"Node", "Cache"}
    /\ Len(pending) < max
    /\ IF nodes[h].kind = "Cache" /\ is_cache_filled(nodes, h)
       THEN Finish(h, compute(nodes, h, heap, yields), pending)
       ELSE Begun(h, topological_sort(nodes, h), pending)
    /\ UNCHANGED <<slices, lastSlice, origin, iterator>>

Resumed(c, rest) ==
    IF c.at = "root"
    THEN Finish(c.root, [E |-> set_at_root(Refreshed(c.E), c.root, c.tensor),
                         result |-> <<c.tensor>>], rest)
    ELSE Advance(c.root,
                 walk_to_set(set_in_walk(Refreshed(c.E), c.sorted[c.i], c.tensor),
                             c.sorted, c.i - 1),
                 c.sorted, rest)

\* A stopped call does its cache.set and runs up to its next one, or to
\* its end.
ComputeResume(j) ==
    /\ panic = "none"
    /\ j \in 1..Len(pending) /\ pending[j].call = "compute"
    /\ Resumed(pending[j], Remove(pending, j))
    /\ UNCHANGED <<slices, lastSlice, origin, iterator>>

----------------------------------------------------------------------------
(* materialize() iteration by iteration: the while loop of                 *)
(* topological_sort, the for loop of compute(), the root's kernel.  One    *)
(* call runs at a time.  `enqueued` lists the members whose inputs the     *)
(* sort has put on its queue, `visited` those the walk has been to.        *)

\* An iteration that takes every member it pops for a new one.
topological_sort_iter_revisit(N, current_inputs, sorted, reference_counter) ==
    LET inp == Head(current_inputs)
        more == IF N[inp].kind = "Edge" THEN <<>> ELSE N[inp].inputs
    IN  [current_inputs |-> Tail(current_inputs) \o more,
         sorted |-> Append(sorted, inp),
         reference_counter |-> (get_id(N, inp) :> 1) @@ reference_counter,
         extended |-> IF N[inp].kind = "Edge" THEN <<>> ELSE <<inp>>]

\* One iteration of the while loop of topological_sort: the queue, sorted
\* and the refcount map after it, and the member whose inputs it enqueued.
topological_sort_iter(N, current_inputs, sorted, reference_counter) ==
    LET inp == Head(current_inputs)
        id == get_id(N, inp)
        more == IF N[inp].kind = "Edge" THEN <<>>
                ELSE IF N[inp].kind = "Node" THEN N[inp].inputs
                ELSE IF ~is_cache_filled(N, inp) THEN N[inp].inputs
                ELSE <<>>
    IN  IF id \in DOMAIN reference_counter
        THEN [current_inputs |-> Tail(current_inputs), sorted |-> sorted,
              reference_counter |-> [reference_counter EXCEPT ![id] = @ + 1],
              extended |-> <<>>]
        ELSE [current_inputs |-> Tail(current_inputs) \o more,
              sorted |-> Append(sorted, inp),
              reference_counter |-> (id :> 1) @@ reference_counter,
              extended |-> IF N[inp].kind = "Edge"
                              \/ (N[inp].kind = "Cache" /\ is_cache_filled(N, inp))
                           THEN <<>> ELSE <<inp>>]

\* materialize() is called on h: a filled CacheNode answers at once, any
\* other node enters topological_sort.
MaterializeCall(h) ==
    /\ panic = "none"
    /\ pending = <<>>
    /\ h \in live /\ nodes[h].kind \in {"Node", "Cache"}
    /\ IF nodes[h].kind = "Cache" /\ is_cache_filled(nodes, h)
       THEN Finish(h, compute(nodes, h, heap, yields), <<>>)
       ELSE /\ pending' = <<[call |-> "materialize", root |-> h, phase |-> "sort",
                             current_inputs |-> nodes[h].inputs, sorted |-> <<>>,
                             reference_counter |-> EmptyMap, E |-> <<>>, i |-> 0,
                             enqueued |-> <<>>, visited |-> <<>>]>>
            /\ live' = live \ {h}
            /\ UNCHANGED <<nodes, NEXT_ID, heap, panic, lastCall, lastMat, applied, yields>>
    /\ UNCHANGED <<slices, lastSlice, origin, iterator>>

SortStepped(c, r) ==
    pending' = <<[c EXCEPT !.current_inputs = r.current_inputs, !.sorted = r.sorted,
                           !.reference_counter = r.reference_counter,
                           !.enqueued = @ \o r.extended]>>

\* An iteration of the while loop of topological_sort, or its end, after
\* which compute() starts its walk from the last of sorted.
SortStep ==
    /\ panic = "none"
    /\ pending # <<>> /\ pending[1].call = "materialize" /\ pending[1].phase = "sort"
    /\ IF pending[1].current_inputs = <<>>
       THEN pending' = <<[pending[1] EXCEPT
                            !.phase = "walk",
                            !.E = Env(nodes, EmptyMap, pending[1].reference_counter,
                                      heap, <<>>, yields, "none"),
                            !.i = Len(pending[1].sorted)]>>
       ELSE SortStepped(pending[1],
                        topological_sort_iter(nodes, pending[1].current_inputs,
                                              pending[1].sorted,
                                              pending[1].reference_counter))
    /\ UNCHANGED <<nodes, NEXT_ID, heap, live, panic, lastCall, lastMat, applied, yields,
                   slices, lastSlice, origin, iterator>>

WalkStepped(c, E) ==
    IF E.panic # "none"
    THEN Finish(c.root, [E |-> E, result |-> <<>>], <<>>)
    ELSE /\ pending' = <<[c EXCEPT !.E = E, !.i = @ - 1,
                                   !.visited = Append(@, c.sorted[c.i])]>>
         /\ UNCHANGED <<nodes, NEXT_ID, heap, live, panic, lastCall, lastMat, applied,
                        yields>>

\* An iteration of the for loop of compute(), or its end.
WalkStep ==
    /\ panic = "none"
    /\ pending # <<>> /\ pending[1].call = "materialize" /\ pending[1].phase = "walk"
    /\ IF pending[1].i = 0
       THEN /\ pending' = <<[pending[1] EXCEPT !.phase = "root"]>>
            /\ UNCHANGED <<nodes, NEXT_ID, heap, live, panic, lastCall, lastMat, applied,
                           yields>>
       ELSE WalkStepped(pending[1], compute_step(pending[1].E, pending[1].sorted[pending[1].i]))
    /\ UNCHANGED <<slices, lastSlice, origin, iterator>>

\* The root's inputs and its kernel; a root CacheNode sets its slot; then
\* materialize() returns.
RootStep ==
    /\ panic = "none"
    /\ pending # <<>> /\ pending[1].call = "materialize" /\ pending[1].phase = "root"
    /\ IF nodes[pending[1].root].kind = "Cache"
       THEN Finish(pending[1].root,
                   cache_set(pending[1].root, run_op(pending[1].E, pending[1].root)), <<>>)
       ELSE Finish(pending[1].root, run_op(pending[1].E, pending[1].root), <<>>)
    /\ UNCHANGED <<slices, lastSlice, origin, iterator>>

----------------------------------------------------------------------------
(* Constructions in steps.  A constructor takes its id with fetch_add and  *)
(* returns the member later; other constructors run in between.            *)

\* The constructor has taken its id: the member is built and not yet
\* returned.
NewBegin(node, drop, app) ==
    /\ pending' = Append(pending, [call |-> "new", node |-> node, app |-> app])
    /\ NEXT_ID' = fetch_add(NEXT_ID, 1)
    /\ live' = live \ drop
    /\ UNCHANGED <<nodes, applied, yields, panic, lastCall, lastMat,
                   slices, lastSlice, origin, iterator>>

\* Tensor::from_vec up to TensorGraphEdge::from_tensor_data.
FromVecBegin(shape, max) ==
    /\ panic = "none"
    /\ Len(nodes) + Len(pending) < max
    /\ LET r == TensorData_from_vec([k \in 1..Product(shape) |-> Num(k - 1)], shape, heap)
       IN  /\ heap' = r.heap
           /\ NewBegin(TensorGraphEdge(NEXT_ID, r.td), {}, <<>>)

\* A scalar operator on a reference, up to TensorGraphNode::new.
ScalarBegin(h, sop, max) ==
    /\ panic = "none"
    /\ Len(nodes) + Len(pending) < max
    /\ h \in live
    /\ NewBegin(TensorGraphNode_new(nodes, NEXT_ID, ScalarOp(sop), <<h>>).node[1], {},
                <<[base |-> applied[h].base, ops |-> Append(applied[h].ops, sop)]>>)
    /\ UNCHANGED heap

\* TensorPromise::cache up to TensorGraphCacheNode::new.
CacheBegin(p, max) ==
    /\ panic = "none"
    /\ Len(nodes) + Len(pending) < max
    /\ p \in live /\ nodes[p].kind = "Node"
    /\ NewBegin(TensorGraphCacheNode(TensorGraphNode_new(nodes, NEXT_ID, NoOp, <<p>>).node[1]),
                {p}, <<>>)
    /\ UNCHANGED heap

\* A constructor returns its member to the program.
NewEnd(j) ==
    /\ panic = "none"
    /\ j \in 1..Len(pending) /\ pending[j].call = "new"
    /\ Publish(pending[j].node, {}, pending[j].app)
    /\ pending' = Remove(pending, j)
    /\ UNCHANGED <<NEXT_ID, heap, panic, lastCall, lastMat, slices, lastSlice, origin,
                   iterator>>

----------------------------------------------------------------------------
(* RawTensor and RawTensorSlice: strided windows on a buffer.  The build   *)
(* modelled is the debug build, in which debug_only! and debug_assert!     *)
(* are compiled in and integer overflow panics.                            *)

\* SliceBounds
Beginning == [b |-> "Beginning", i |-> 0]
Index(i) == [b |-> "Index", i |-> i]
ReverseIndex(i) == [b |-> "ReverseIndex", i |-> i]
End == [b |-> "End", i |-> 0]

\* A bound of a Range<i32>, RangeFrom<i32> or RangeTo<i32>.
SliceBounds_from(value) == IF value >= 0 THEN Index(value) ELSE ReverseIndex(-value)

\* SliceRange::from(start..), (..end), (..) and (start..end).
SliceRange_from_RangeFrom(start) == [start |-> SliceBounds_from(start), end |-> End]
SliceRange_from_RangeTo(end) == [start |-> Beginning, end |-> SliceBounds_from(end)]
SliceRange_from_RangeFull == [start |-> Beginning, end |-> End]
SliceRange_from_Range(start, end) ==
    [start |-> SliceBounds_from(start), end |-> SliceBounds_from(end)]

\* Adjacent strides that are the strides themselves.
calculate_adjacent_dim_stride_plain(stride, slice_shape) == stride

\* v[i] = stride[i] - the distance the dimensions inside i cover.
calculate_adjacent_dim_stride(stride, slice_shape) ==
    LET n == Len(stride)
        accum[i \in 1..n] ==
            IF i = n THEN 0 ELSE accum[i + 1] + stride[i + 1] * (slice_shape[i + 1] - 1)
    IN  [i \in 1..n |-> stride[i] - accum[i]]

\* The Layout of the slice code: shape, stride and adj_stride.
Layout_new(shape, stride, adj_stride) ==
    [shape |-> shape, stride |-> stride, adj_stride |-> adj_stride]

\* Dimension::len and Dimension::offset of a RawTensor or a RawTensorSlice.
Dimension_len(c, h) == IF c.kind = "RawTensor" THEN Len(h[c.buffer]) ELSE c.len
Dimension_offset(c) == IF c.kind = "RawTensor" THEN 0 ELSE c.offset

\* The start and the end a range gives in a dimension of extent `ext`;
\* -1 stands for unreachable!().
range_start(r, ext) ==
    CASE r.start.b = "Beginning" -> 0
      [] r.start.b = "Index" -> r.start.i
      [] r.start.b = "ReverseIndex" -> ext - r.start.i
      [] OTHER -> -1

range_end(r, ext) ==
    CASE r.end.b = "End" -> ext
      [] r.end.b = "Index" -> r.end.i
      [] r.end.b = "ReverseIndex" -> ext - r.end.i
      [] OTHER -> -1

\* The loop of from_range over the ranged dimensions, from `dim` on.
RECURSIVE from_range_loop(_, _, _, _, _)
from_range_loop(container, range, dim, offset, new_shape) ==
    IF dim > Len(range)
    THEN [panic |-> "none", offset |-> offset, shape |-> new_shape]
    ELSE IF range[dim].start.b = "End" \/ range[dim].end.b = "Beginning"
    THEN [panic |-> "unreachable", offset |-> offset, shape |-> new_shape]
    ELSE IF range_end(range[dim], container.layout.shape[dim])
                <= range_start(range[dim], container.layout.shape[dim])
    THEN [panic |-> "slice_out_of_bounds", offset |-> offset, shape |-> new_shape]
    ELSE from_range_loop(
            container, range, dim + 1,
            offset + range_start(range[dim], container.layout.shape[dim])
                        * container.layout.stride[dim],
            [new_shape EXCEPT ![dim] =
                range_end(range[dim], container.layout.shape[dim])
                    - range_start(range[dim], container.layout.shape[dim])])

\* The check after the loop: len + (offset as usize) > container.len(),
\* a negative offset cast to usize overflowing the sum or exceeding the len.
from_range_checked(container, len, l) ==
    IF l.panic # "none" THEN [panic |-> l.panic, info |-> <<>>]
    ELSE IF l.offset < 0
    THEN [panic |-> IF Product(l.shape) + l.offset >= 0 THEN "add_overflow"
                    ELSE "slice_bigger_than_matrix",
          info |-> <<>>]
    ELSE IF Product(l.shape) + l.offset > len
    THEN [panic |-> "slice_bigger_than_matrix", info |-> <<>>]
    ELSE [panic |-> "none",
          info |-> <<[offset |-> l.offset, shape |-> l.shape,
                      adj_stride |-> calculate_adjacent_dim_stride(
                                        container.layout.stride, l.shape)]>>]

\* SliceInfo::from_range: the SliceInfo, or the panic of the debug build.
SliceInfo_from_range(container, range, h) ==
    IF Len(container.layout.shape) < Len(range)
    THEN [panic |-> "debug_assert", info |-> <<>>]
    ELSE from_range_checked(container, Dimension_len(container, h),
                            from_range_loop(container, range, 1,
                                            Dimension_offset(container),
                                            container.layout.shape))

\* RawTensorSlice::from_info: the strides are those of the base tensor.
RawTensorSlice_from_info(b, base, info) ==
    [kind |-> "RawTensorSlice", base |-> b, offset |-> info.offset,
     len |-> Product(info.shape),
     layout |-> Layout_new(info.shape, base.layout.stride, info.adj_stride)]

\* RawTensorSlice::new
RawTensorSlice_new(b, layout, offset) ==
    [kind |-> "RawTensorSlice", base |-> b, offset |-> offset,
     len |-> Product(layout.shape), layout |-> layout]

\* RawTensor::from_vec: the buffer is `h`'s next.
RawTensor_from_vec(vector, shape, h) ==
    [kind |-> "RawTensor", base |-> 0, buffer |-> Len(h) + 1,
     layout |-> Layout_from_shape(shape, 0)]

\* The handle of the RawTensor a container refers to.
BaseOf(S, c) == IF S[c].kind = "RawTensor" THEN c ELSE S[c].base

\* A swap that writes the first entry and loses the temporary.
SwapStride_lost_temp(stride, i, j) == [stride EXCEPT ![i] = stride[j]]

\* temp = stride[i]; stride[i] = stride[j]; stride[j] = temp
SwapStride(stride, i, j) == [stride EXCEPT ![i] = stride[j], ![j] = stride[i]]

\* The body transposed and transposed_n share: entries i and j of the
\* stride are swapped, the shape is kept.
transposed_by(t, b, new_stride) ==
    RawTensorSlice_new(b, Layout_new(t.layout.shape, new_stride,
                                     calculate_adjacent_dim_stride(new_stride,
                                                                   t.layout.shape)),
                       0)

\* RawTensor::transposed: the first and the last stride change places.
RawTensor_transposed(t, b) ==
    transposed_by(t, b, SwapStride(t.layout.stride, 1, Len(t.layout.stride)))

\* RawTensor::transposed_n: strides axis and len - axis - 1 (0-based).
RawTensor_transposed_n(t, b, axis) ==
    transposed_by(t, b, SwapStride(t.layout.stride, axis + 1,
                                   Len(t.layout.stride) - axis))

\* The buffer positions RawTensorSlice::iter visits, in order: SliceIter
\* starts at as_ptr(), the base pointer advanced by the offset.
RawTensorSlice_iter(s) ==
    LET ps == SliceIter_walk(0, [i \in 1..Len(s.layout.shape) |-> 0], s.layout.shape,
                             s.layout.adj_stride, s.len)
    IN  [k \in 1..Len(ps) |-> s.offset + ps[k]]

\* RawTensor::iter is a ContiguousIter over the whole buffer.
RawTensor_iter(t, h) == [k \in 1..Len(h[t.buffer]) |-> k - 1]

Positions(S, c, h) ==
    IF S[c].kind = "RawTensor" THEN RawTensor_iter(S[c], h) ELSE RawTensorSlice_iter(S[c])

SliceCall(name, c, range, axis, result) ==
    [name |-> name, container |-> c, range |-> range, axis |-> axis,
     result |-> result, yields |-> <<>>]

AddSlice(s, call) ==
    /\ slices' = Append(slices, s)
    /\ origin' = Append(origin, call)
    /\ lastSlice' = call

\* srange!(size, shape) of the slice code: RawTensor::from_vec over 0..size.
RawFromVec(shape, max) ==
    /\ panic = "none"
    /\ Len(slices) < max
    /\ heap' = Append(heap, [k \in 1..Product(shape) |-> Num(k - 1)])
    /\ AddSlice(RawTensor_from_vec([k \in 1..Product(shape) |-> Num(k - 1)], shape, heap),
                SliceCall("from_vec", 0, <<>>, 0, Len(slices) + 1))
    /\ UNCHANGED <<nodes, NEXT_ID, live, panic, lastCall, lastMat, applied, yields, pending, iterator>>

Sliced(c, range, max, r) ==
    IF r.panic # "none"
    THEN /\ panic' = r.panic
         /\ lastSlice' = SliceCall("slice", c, range, 0, 0)
         /\ UNCHANGED <<slices, origin>>
    ELSE /\ Len(slices) < max
         /\ AddSlice(RawTensorSlice_from_info(BaseOf(slices, c),
                                              slices[BaseOf(slices, c)], r.info[1]),
                     SliceCall("slice", c, range, 0, Len(slices) + 1))
         /\ UNCHANGED panic

\* RawTensor::slice and RawTensorSlice::slice
Slice(c, range, max) ==
    /\ panic = "none"
    /\ c \in 1..Len(slices)
    /\ Len(range) <= Len(slices[c].layout.shape)
    /\ Sliced(c, range, max, SliceInfo_from_range(slices[c], range, heap))
    /\ UNCHANGED <<nodes, NEXT_ID, heap, live, lastCall, lastMat, applied, yields, pending, iterator>>

\* RawTensor::transposed
Transposed(t, max) ==
    /\ panic = "none"
    /\ Len(slices) < max
    /\ t \in 1..Len(slices) /\ slices[t].kind = "RawTensor"
    /\ AddSlice(RawTensor_transposed(slices[t], t),
                SliceCall("transposed", t, <<>>, 0, Len(slices) + 1))
    /\ UNCHANGED <<nodes, NEXT_ID, heap, live, panic, lastCall, lastMat, applied, yields, pending, iterator>>

\* RawTensor::transposed_n
Transposed_n(t, axis, max) ==
    /\ panic = "none"
    /\ Len(slices) < max
    /\ t \in 1..Len(slices) /\ slices[t].kind = "RawTensor"
    /\ axis < Len(slices[t].layout.shape)
    /\ AddSlice(RawTensor_transposed_n(slices[t], t, axis),
                SliceCall("transposed_n", t, <<>>, axis, Len(slices) + 1))
    /\ UNCHANGED <<nodes, NEXT_ID, heap, live, panic, lastCall, lastMat, applied, yields, pending, iterator>>

\* The values an out-of-bounds read may give.
Garbage == {Num(0), NaN}

\* Iterating a container to its end.  A position outside the buffer is an
\* out-of-bounds read: the program panics, or reads whatever lies there.
Iterated(c, ps, buf) ==
    IF \A k \in 1..Len(ps) : ps[k] \in 0..(Len(buf) - 1)
    THEN /\ lastSlice' = [SliceCall("iter", c, <<>>, 0, 0) EXCEPT
                            !.yields = [k \in 1..Len(ps) |-> buf[ps[k] + 1]]]
         /\ lastSlice' # lastSlice
         /\ UNCHANGED panic
    ELSE \/ /\ panic' = "out_of_bounds"
            /\ lastSlice' = SliceCall("iter", c, <<>>, 0, 0)
         \/ /\ \E g \in Garbage :
                    lastSlice' = [SliceCall("iter", c, <<>>, 0, 0) EXCEPT
                        !.yields = [k \in 1..Len(ps) |->
                                       IF ps[k] \in 0..(Len(buf) - 1)
                                       THEN buf[ps[k] + 1] ELSE g]]
            /\ lastSlice' # lastSlice
            /\ UNCHANGED panic

\* RawTensor::iter and RawTensorSlice::iter, collected.
Iter(c) ==
    /\ panic = "none"
    /\ c \in 1..Len(slices)
    /\ Iterated(c, Positions(slices, c, heap), heap[slices[BaseOf(slices, c)].buffer])
    /\ UNCHANGED <<nodes, NEXT_ID, heap, live, lastCall, lastMat, applied, yields,
                   slices, origin, pending, iterator>>

----------------------------------------------------------------------------
(* SliceIter, call by call.  An item is given as the flat position it was  *)
(* read at; `out` is what the calls of next() have returned so far.        *)

Some(item) == <<"Some", item>>
None == <<"None">>

\* The smallest buffer that holds every element the layout addresses.
BufferLen(shape, stride) ==
    LET far[d \in 0..Len(shape)] ==
            IF d = 0 THEN 0 ELSE far[d - 1] + stride[d] * (shape[d] - 1)
    IN  far[Len(shape)] + 1

\* TensorData::iter: SliceIter::new(buffer, len, shape, adj_stride) over a
\* layout whose adj_stride comes from calculate_adjacent_dim_stride.
SliceIter_new(shape, stride) ==
    /\ panic = "none"
    /\ iterator = NoIterator
    /\ iterator' = [kind |-> "SliceIter", shape |-> shape, stride |-> stride,
                    adj_stride |-> calculate_adjacent_dim_stride(stride, shape),
                    data_len |-> BufferLen(shape, stride),
                    pos |-> 0, counter |-> [i \in 1..Len(shape) |-> 0],
                    left_over |-> Product(shape), out |-> <<>>]
    /\ UNCHANGED <<nodes, NEXT_ID, heap, live, panic, lastCall, lastMat, applied, yields,
                   slices, lastSlice, origin, pending>>

\* SliceIter::size_hint
SliceIter_size_hint(it) == <<it.left_over, <<it.left_over>>>>

\* The rest of next() once the carry loop has answered.
SliceIter_stepped(it, r) ==
    IF it.pos < 0 \/ it.pos >= it.data_len
    THEN /\ panic' = "out_of_bounds"
         /\ UNCHANGED iterator
    ELSE /\ iterator' = [it EXCEPT !.pos = r.pos, !.counter = r.counter,
                                   !.left_over = @ - 1,
                                   !.out = Append(@, Some(r.ps[1]))]
         /\ UNCHANGED panic

\* SliceIter::next
SliceIter_step(max) ==
    /\ panic = "none"
    /\ iterator.kind = "SliceIter"
    /\ IF iterator.left_over = 0
       THEN /\ Len(iterator.out) < Product(iterator.shape) + max
            /\ iterator' = [iterator EXCEPT !.out = Append(@, None)]
            /\ UNCHANGED panic
       ELSE SliceIter_stepped(iterator,
                SliceIter_next(iterator.pos, iterator.counter, iterator.shape,
                               iterator.adj_stride,
                               Carry([iterator.counter EXCEPT
                                         ![Len(iterator.counter)] = @ + 1],
                                     iterator.shape, Len(iterator.counter),
                                     Len(iterator.counter))))
    /\ UNCHANGED <<nodes, NEXT_ID, heap, live, lastCall, lastMat, applied, yields,
                   slices, lastSlice, origin, pending>>

----------------------------------------------------------------------------
(* InformedSliceIter, call by call.  Dimensions are counted from 0 as in   *)
(* the code; a Value is given as the flat position it was read at.         *)

\* StepInfo
EnterDimension(dim) == <<"EnterDimension", dim>>
ExitDimension(dim) == <<"ExitDimension", dim>>
Value(v) == <<"Value", v>>
StepInfo_End == <<"End">>

\* InformedSliceIter::new over a layout whose adj_stride comes from
\* calculate_adjacent_dim_stride.
InformedSliceIter_new(shape, stride) ==
    /\ panic = "none"
    /\ iterator = NoIterator
    /\ iterator' = [kind |-> "InformedSliceIter", shape |-> shape, stride |-> stride,
                    adj_stride |-> calculate_adjacent_dim_stride(stride, shape),
                    data_len |-> BufferLen(shape, stride),
                    current_state |-> EnterDimension(0),
                    pos |-> 0, len |-> Product(shape),
                    counter |-> [i \in 1..Len(shape) |-> 0], out |-> <<>>]
    /\ UNCHANGED <<nodes, NEXT_ID, heap, live, panic, lastCall, lastMat, applied, yields,
                   slices, lastSlice, origin, pending>>

\* current_state = StepInfo::Value(self.buffer[self.pos as usize]) after
\* debug_assert_positive!(self.pos), then the return of `item`.
InformedSliceIter_read(it, pos, counter, item) ==
    IF pos < 0
    THEN /\ panic' = "debug_assert"
         /\ UNCHANGED iterator
    ELSE IF pos >= it.data_len
    THEN /\ panic' = "out_of_bounds"
         /\ UNCHANGED iterator
    ELSE /\ iterator' = [it EXCEPT !.current_state = Value(pos), !.pos = pos,
                                   !.counter = counter, !.out = Append(@, Some(item))]
         /\ UNCHANGED panic

\* An arm for EnterDimension that reads a Value in whatever dimension.
InformedSliceIter_enter_flat(it, dim) ==
    InformedSliceIter_read(it, it.pos, it.counter, EnterDimension(dim))

\* The arm of next() for StepInfo::EnterDimension(dim).
InformedSliceIter_enter(it, dim) ==
    IF dim = Len(it.shape) - 1
    THEN InformedSliceIter_read(it, it.pos, it.counter, EnterDimension(dim))
    ELSE /\ iterator' = [it EXCEPT !.current_state = EnterDimension(dim + 1),
                                   !.out = Append(@, Some(EnterDimension(dim)))]
         /\ UNCHANGED panic

\* The arm of next() for StepInfo::ExitDimension(dim); counter[dim] of the
\* code is counter[dim + 1] here.
InformedSliceIter_exit(it, dim) ==
    /\ UNCHANGED panic
    /\ IF dim = 0
       THEN iterator' = [it EXCEPT !.current_state = StepInfo_End,
                                   !.out = Append(@, Some(ExitDimension(dim)))]
       ELSE IF it.counter[dim] + 1 = it.shape[dim]
       THEN iterator' = [it EXCEPT !.counter[dim + 1] = 0, !.counter[dim] = @ + 1,
                                   !.current_state = ExitDimension(dim - 1),
                                   !.out = Append(@, Some(ExitDimension(dim)))]
       ELSE iterator' = [it EXCEPT !.counter[dim + 1] = 0, !.counter[dim] = @ + 1,
                                   !.pos = @ + it.adj_stride[dim],
                                   !.current_state = EnterDimension(dim),
                                   !.out = Append(@, Some(ExitDimension(dim)))]

\* The arm of next() for StepInfo::Value(v).
InformedSliceIter_value(it, v) ==
    IF it.counter[Len(it.counter)] = it.shape[Len(it.shape)] - 1
    THEN /\ iterator' = [it EXCEPT !.current_state = ExitDimension(Len(it.counter) - 1),
                                   !.counter[Len(it.counter)] = 0,
                                   !.out = Append(@, Some(Value(v)))]
         /\ UNCHANGED panic
    ELSE InformedSliceIter_read(it, it.pos + it.adj_stride[Len(it.adj_stride)],
                                [it.counter EXCEPT ![Len(it.counter)] = @ + 1],
                                Value(v))

\* The events given so far that are not None.
Events(out) == {k \in 1..Len(out) : out[k] # None}

\* InformedSliceIter::next
InformedSliceIter_step(max) ==
    /\ panic = "none"
    /\ iterator.kind = "InformedSliceIter"
    /\ CASE iterator.current_state[1] = "EnterDimension" ->
                InformedSliceIter_enter(iterator, iterator.current_state[2])
         [] iterator.current_state[1] = "ExitDimension" ->
                InformedSliceIter_exit(iterator, iterator.current_state[2])
         [] iterator.current_state[1] = "Value" ->
                InformedSliceIter_value(iterator, iterator.current_state[2])
         [] OTHER ->
                /\ Len(iterator.out) < Cardinality(Events(iterator.out)) + max
                /\ iterator' = [iterator EXCEPT !.out = Append(@, None)]
                /\ UNCHANGED panic
    /\ UNCHANGED <<nodes, NEXT_ID, heap, live, lastCall, lastMat, applied, yields,
                   slices, lastSlice, origin, pending>>

----------------------------------------------------------------------------
(* The specifications.                                                     *)

Shapes == {<<2, 3>>, <<3, 2>>}
ViewShapes == {<<6>>, <<4>>}
Scalars == {Num(2), Num(3)}
ChainShapes == {<<2>>}
DagShapes == {<<2>>, <<1, 2>>}

\* Any program over tensors and promises.
Next ==
    \/ \E s \in Shapes : NewTensor(s, MaxNodes)
    \/ \E t \in live : AsPromise(t, MaxNodes)
    \/ \E h \in live, k \in ScalarKinds, v \in Scalars, b \in BOOLEAN :
            ScalarBuild(h, OpScalarKind(k, v), b, MaxNodes)
    \/ \E k \in BinaryKinds, l \in live, r \in live : BinaryBuild(k, l, r, MaxNodes)
    \/ \E h \in live, s \in ViewShapes : ViewBuild(h, s, MaxNodes)
    \/ \E h \in live, keep \in BOOLEAN : Materialize(h, keep, MaxNodes)

Spec == Init /\ [][Next]_vars

\* Programs that build expressions over tensors, promises and cached
\* promises and materialize none.
NextBuild ==
    \/ \E s \in Shapes : NewTensor(s, MaxBuild)
    \/ \E h \in live, k \in {"Sum", "Mul"} :
            ScalarBuild(h, OpScalarKind(k, Num(2)), FALSE, MaxBuild)
    \/ \E k \in BinaryKinds, l \in live, r \in live : BinaryBuild(k, l, r, MaxBuild)
    \/ \E p \in live : CacheBuild(p, MaxBuild)

SpecBuild == Init /\ [][NextBuild]_vars

\* Programs that apply scalar operators one after another, each operator
\* taking its operand by value.
NextChain ==
    \/ \E s \in ChainShapes : NewTensor(s, MaxChain)
    \/ \E t \in live : AsPromise(t, MaxChain)
    \/ \E h \in live, k \in ScalarKinds, v \in Scalars :
            ScalarBuild(h, OpScalarKind(k, v), TRUE, MaxChain)
    \/ \E h \in live : Materialize(h, FALSE, MaxChain)

SpecChain == Init /\ [][NextChain]_vars

\* Programs that share operands between expressions (operators taken on
\* references), cache promises and materialize them in any order.
NextDag ==
    \/ \E s \in DagShapes : NewTensor(s, MaxDag)
    \/ \E h \in live : ScalarBuild(h, OpScalarKind("Mul", Num(2)), FALSE, MaxDag)
    \/ \E l \in live, r \in live : BinaryBuild("Add", l, r, MaxDag)
    \/ \E p \in live : CacheBuild(p, MaxDag)
    \/ \E h \in live : Materialize(h, FALSE, MaxDag)

SpecDag == Init /\ [][NextDag]_vars

SumShapes == {<<12>>}
SumScalars == {Num(1), Num(3)}

\* Programs that add scalars one after another to t.as_promise() and
\* multiply the sum by 2.
NextSum ==
    \/ \E s \in SumShapes : NewTensor(s, MaxSum)
    \/ \E t \in live : AsPromise(t, MaxSum)
    \/ \E h \in live, v \in SumScalars :
            ScalarBuild(h, OpScalarKind("Sum", v), TRUE, MaxSum)
    \/ \E h \in live : ScalarBuild(h, OpScalarKind("Mul", Num(2)), TRUE, MaxSum)
    \/ \E h \in live : Materialize(h, FALSE, MaxSum)

SpecSum == Init /\ [][NextSum]_vars

\* Programs that view tensors and views under other shapes.
NextView ==
    \/ \E s \in Shapes : NewTensor(s, MaxView)
    \/ \E h \in live, s \in Shapes \cup ViewShapes : ViewBuild(h, s, MaxView)
    \/ \E h \in live : Materialize(h, FALSE, MaxView)

SpecView == Init /\ [][NextView]_vars

SliceShapes == {<<3, 3, 3>>, <<2, 3>>}

\* The range a program writes for one dimension: .., 1..2, -2.., 2..4, 2..1.
DimRanges ==
    {SliceRange_from_RangeFull, SliceRange_from_Range(1, 2), SliceRange_from_RangeFrom(-2),
     SliceRange_from_Range(2, 4), SliceRange_from_Range(2, 1)}

\* The ranges a program slices with: one for the leading dimension; [.., r]
\* for the second; [2..4, 1..2]; [.., 1..2, 1..2]; and [..3], a RangeTo.
SliceRanges ==
    {<<a>> : a \in DimRanges}
        \cup {<<SliceRange_from_RangeFull, a>> :
                a \in {SliceRange_from_Range(1, 2), SliceRange_from_RangeFrom(-2)}}
        \cup {<<SliceRange_from_Range(2, 4), SliceRange_from_Range(1, 2)>>,
              <<SliceRange_from_RangeFull, SliceRange_from_Range(1, 2),
                SliceRange_from_Range(1, 2)>>,
              <<SliceRange_from_RangeTo(3)>>}

\* Programs that slice and transpose RawTensors, slice the slices, and
\* iterate them.
NextSlice ==
    \/ \E s \in SliceShapes : RawFromVec(s, MaxSlice)
    \/ \E c \in 1..Len(slices), r \in SliceRanges : Slice(c, r, MaxSlice)
    \/ \E t \in 1..Len(slices) : Transposed(t, MaxSlice)
    \/ \E t \in 1..Len(slices), axis \in 0..2 : Transposed_n(t, axis, MaxSlice)
    \/ \E c \in 1..Len(slices) : Iter(c)

SpecSlice == Init /\ [][NextSlice]_vars


\* Programs that transpose RawTensors and iterate the results.
NextTranspose ==
    \/ \E s \in SliceShapes : RawFromVec(s, MaxTranspose)
    \/ \E t \in 1..Len(slices) : Transposed(t, MaxTranspose)
    \/ \E t \in 1..Len(slices), axis \in 0..2 : Transposed_n(t, axis, MaxTranspose)
    \/ \E c \in 1..Len(slices) : Iter(c)

SpecTranspose == Init /\ [][NextTranspose]_vars

\* Every shape of rank 1..MaxRank with extents 1..MaxDim and at most MaxLen
\* elements.
LayoutShapes ==
    {s \in UNION {[1..n -> 1..MaxDim] : n \in 1..MaxRank} : Product(s) <= MaxLen}

\* Programs that build tensors of any of these shapes.
NextLayout ==
    \/ \E s \in LayoutShapes : NewTensor(s, MaxLayout)

SpecLayout == Init /\ [][NextLayout]_vars

OnceShapes == {<<2>>}

\* Programs that cache promises, build on them by reference and
\* materialize, the calls of materialize() running in steps.
NextOnce ==
    \/ \E s \in OnceShapes : NewTensor(s, MaxOnce)
    \/ \E h \in live : ScalarBuild(h, OpScalarKind("Mul", Num(2)), FALSE, MaxOnce)
    \/ \E p \in live : CacheBuild(p, MaxOnce)
    \/ \E h \in live : ComputeBegin(h, MaxPending)
    \/ \E j \in 1..Len(pending) : ComputeResume(j)

SpecOnce == Init /\ [][NextOnce]_vars

\* Programs whose constructors run in steps.
NextIds ==
    \/ \E s \in OnceShapes : FromVecBegin(s, MaxIds)
    \/ \E h \in live :
          ScalarBegin(h, OpScalarKind("Mul", Num(2)), MaxIds)
    \/ \E p \in live : CacheBegin(p, MaxIds)
    \/ \E j \in 1..Len(pending) : NewEnd(j)

SpecIds == Init /\ [][NextIds]_vars

\* The strides of a tensor of this shape, of the transpose of a tensor of
\* the reversed shape, and of a window of a tensor one longer in every
\* dimension.
IterStrides(shape) ==
    {calculate_dim_stride(shape),
     Reverse(calculate_dim_stride(Reverse(shape))),
     calculate_dim_stride([d \in 1..Len(shape) |-> shape[d] + 1])}

\* Programs that take an iterator over a layout and call next() on it.
NextIter ==
    \/ \E s \in LayoutShapes : \E st \in IterStrides(s) : SliceIter_new(s, st)
    \/ SliceIter_step(MaxNones)

SpecIter == Init /\ [][NextIter]_vars

\* Programs that take an informed iterator over a layout and call next()
\* on it.
NextInformed ==
    \/ \E s \in LayoutShapes : \E st \in IterStrides(s) : InformedSliceIter_new(s, st)
    \/ InformedSliceIter_step(MaxNones)

SpecInformed == Init /\ [][NextInformed]_vars

\* Programs that build DAGs by reference, cache promises and materialize,
\* materialize() running iteration by iteration; it returns before the
\* program's next statement.
NextSteps ==
    \/ pending = <<>> /\ \E s \in OnceShapes : NewTensor(s, MaxSteps)
    \/ pending = <<>>
         /\ \E h \in live : ScalarBuild(h, OpScalarKind("Mul", Num(2)), FALSE, MaxSteps)
    \/ pending = <<>> /\ \E l \in live, r \in live : BinaryBuild("Add", l, r, MaxSteps)
    \/ pending = <<>> /\ \E p \in live : CacheBuild(p, MaxSteps)
    \/ \E h \in live : MaterializeCall(h)
    \/ SortStep
    \/ WalkStep
    \/ RootStep

SpecSteps == Init /\ [][NextSteps]_vars


\* Shapes of one whole chunk, and of one chunk and two more elements.
ChunkShapes == {<<PACKING_BUFFER_SIZE>>, <<PACKING_BUFFER_SIZE + 2>>}

\* The members that are not themselves the result of a binary operator.
ChunkOperands == {h \in live : nodes[h].op.k \notin BinaryKinds}

\* Programs that combine tensors, and tensors times 2, with the binary
\* operators and materialize the result.
NextChunk ==
    \/ \E s \in ChunkShapes : NewTensor(s, MaxChunk)
    \/ \E h \in live : ScalarBuild(h, OpScalarKind("Mul", Num(2)), TRUE, MaxChunk)
    \/ \E k \in BinaryKinds, l \in ChunkOperands, r \in ChunkOperands :
          BinaryBuild(k, l, r, MaxChunk)
    \/ \E h \in live : Materialize(h, FALSE, MaxChunk)

SpecChunk == Init /\ [][NextChunk]_vars

----------------------------------------------------------------------------
(* The claims.                                                             *)

\* C1: while any DAG built with the public operators is materialized, a
\* DAG with a shared operand such as a + (a * 2) included, every node is
\* evaluated after all of its inputs, so no operand lookup misses its
\* refcount entry or its computation-cache entry.
C1_EvaluatedAfterInputs == panic \notin {"unreachable", "unwrap_none"}

\* C2: a chain of scalar ops applied one after another to a tensor, once
\* fused and materialized, gives element for element what the kernels of
\* the ops give when run separately, in order, on the tensor.
C2_FusionEquivalence ==
    (/\ lastMat.returned
     /\ applied[lastMat.root].ops # <<>>
     /\ nodes[applied[lastMat.root].base].kind = "Edge")
    => copied_iter(lastMat.result[1], heap)
         = compute_fused(applied[lastMat.root].ops, 1,
                         copied_iter(nodes[applied[lastMat.root].base].data[1], heap))

\* C3: a ScalarOp child over a FusedScalar(ops) parent gives a FusedScalar
\* whose chain is ops with the last element replaced by the merged op when
\* ops[last] and the child merge, and ops with the child appended (every
\* element of ops kept, one longer) when they do not.
C3_ReplaceTailOrAppend ==
    (/\ lastCall.name = "scalar"
     /\ nodes[lastCall.args[1]].op.k = "FusedScalar")
    => LET ops == nodes[lastCall.args[1]].op.ops
           child == lastCall.op.ops[1]
           tail == ops[Len(ops)]
           merges == (tail.k \in {"Sum", "Sub"}) = (child.k \in {"Sum", "Sub"})
           built == nodes[lastCall.node].op
       IN  /\ built.k = "FusedScalar"
           /\ IF merges
              THEN built.ops = Append(SubSeq(ops, 1, Len(ops) - 1),
                                      fuse_scalars(tail, <<>>, child).op.ops[1])
              ELSE built.ops = Append(ops, child)

\* C4: materializing ScalarOp(Sub(s)) over a tensor x yields element - s
\* for every element of x.
C4_SubYieldsDifference ==
    (/\ lastMat.returned
     /\ nodes[lastMat.root].op.k = "ScalarOp"
     /\ nodes[lastMat.root].op.ops[1].k = "Sub"
     /\ nodes[nodes[lastMat.root].inputs[1]].kind = "Edge")
    => LET x == copied_iter(nodes[nodes[lastMat.root].inputs[1]].data[1], heap)
           s == nodes[lastMat.root].op.ops[1].v
       IN  copied_iter(lastMat.result[1], heap) = [i \in 1..Len(x) |-> RSub(x[i], s)]

\* C5: materializing ScalarOp(Div(s)) over a tensor x yields element / s
\* for every element of x, and ScalarOp(Mul(s)) yields element * s.
C5_DivYieldsQuotient ==
    (/\ lastMat.returned
     /\ nodes[lastMat.root].op.k = "ScalarOp"
     /\ nodes[lastMat.root].op.ops[1].k \in {"Div", "Mul"}
     /\ nodes[nodes[lastMat.root].inputs[1]].kind = "Edge")
    => LET x == copied_iter(nodes[nodes[lastMat.root].inputs[1]].data[1], heap)
           s == nodes[lastMat.root].op.ops[1].v
       IN  copied_iter(lastMat.result[1], heap) =
             [i \in 1..Len(x) |->
                IF nodes[lastMat.root].op.ops[1].k = "Div"
                THEN RDiv(x[i], s) ELSE RMul(x[i], s)]

\* C6: the NotSameShape error of a binary op over inputs of different
\* shapes carries the first input's shape as expected and the second
\* input's shape as got.
C6_NotSameShapePayload ==
    lastCall.err = "NotSameShape"
    => /\ lastCall.expected = nodes[lastCall.args[1]].layout.shape
       /\ lastCall.got = nodes[lastCall.args[2]].layout.shape

\* C7: building Add, Sub, Mul or Div over two operands fails fatally with
\* NotSameShape exactly when the operands' shapes differ, and then no node
\* is created and no id is consumed; when the shapes are equal the new
\* promise's layout is the first operand's layout.
C7_BinaryBuildShapes ==
    lastCall.name = "binary"
    => /\ (panic = "NotSameShape")
            = (nodes[lastCall.args[1]].layout.shape # nodes[lastCall.args[2]].layout.shape)
       /\ panic = "NotSameShape"
            => /\ lastCall.node = 0
               /\ Len(nodes) = lastCall.nBefore
               /\ NEXT_ID = lastCall.idBefore
       /\ panic # "NotSameShape"
            => /\ lastCall.node = lastCall.nBefore + 1
               /\ Len(nodes) = lastCall.nBefore + 1
               /\ NEXT_ID = lastCall.idBefore + 1
               /\ nodes[lastCall.node].kind = "Node"
               /\ nodes[lastCall.node].layout = nodes[lastCall.args[1]].layout

\* A binary op over operands of different shapes has been refused.
C7_Witness ==
    /\ lastCall.name = "binary"
    /\ panic = "NotSameShape"
    /\ nodes[lastCall.args[1]].layout.shape # nodes[lastCall.args[2]].layout.shape

\* C8 as stated: once a CacheNode's slot is filled, no later
\* materialization evaluates the CacheNode or any node beneath it again.
C8_CachedSubgraphOnce ==
    \A c \in lastMat.filled :
        Reach(nodes, {c}, {}) \cap Range(lastMat.order) = {}

\* C8 amended: a materialization runs the op of no filled CacheNode and
\* descends through none: every node it evaluates is reached from the
\* root by a path that passes through no filled CacheNode.
C8_FilledCacheIsLeaf ==
    lastMat.root # 0
    => Range(lastMat.order)
         \subseteq Reach(nodes, {lastMat.root}, lastMat.filled) \ lastMat.filled

\* A graph over a CacheNode filled earlier has been materialized.
C8_Witness ==
    /\ lastMat.returned
    /\ lastMat.root \notin lastMat.filled
    /\ lastMat.order # <<>>
    /\ Reach(nodes, {lastMat.root}, {}) \cap lastMat.filled # {}

\* C9: all the TensorData values the materializations of one CacheNode
\* give share one Storage and have equal Layouts.
C9_CacheSharesStorage ==
    \A c \in 1..Len(yields) : \A i, j \in 1..Len(yields[c]) :
        /\ yields[c][i].storage = yields[c][j].storage
        /\ yields[c][i].layout = yields[c][j].layout

\* One CacheNode has been materialized twice.
C9_Witness == \E c \in 1..Len(yields) : Len(yields[c]) >= 2

\* C10: at the end of every materialize() that returns, the computation
\* cache is empty and every refcount of the refcount map is zero.
C10_RefcountLaw ==
    lastMat.returned
    => /\ lastMat.cache = EmptyMap
       /\ \A id \in DOMAIN lastMat.refs : lastMat.refs[id] = 0

\* A materialize() over a walk of at least two operands has returned.
C10_Witness ==
    /\ lastMat.returned
    /\ Cardinality(DOMAIN lastMat.refs) >= 2

\* C11: within one materialize() the kernel of each distinct non-Edge node
\* reachable from the root runs exactly once, however many parents share
\* the node, and the root's kernel runs last (stated for graphs that hold
\* no CacheNode filled earlier).
C11_EachKernelOnceRootLast ==
    (/\ lastMat.root # 0
     /\ Reach(nodes, {lastMat.root}, {}) \cap lastMat.filled = {})
    => /\ Range(lastMat.order)
            = {n \in Reach(nodes, {lastMat.root}, {}) : nodes[n].kind # "Edge"}
       /\ Len(lastMat.order) = Cardinality(Range(lastMat.order))
       /\ lastMat.order[Len(lastMat.order)] = lastMat.root

\* C12: adding scalars c_1..c_n one after another to t.as_promise() builds
\* one ScalarOp Sum node whose constant is c_1 + .. + c_n and whose input
\* is the as_promise NoOp node; multiplied by m and materialized, element
\* k of the result is (t[k] + c_1 + .. + c_n) * m.
C12_SumsCollapse ==
    \A h \in 1..Len(nodes) :
        LET ops == applied[h].ops
            base == applied[h].base
            n == IF ops # <<>> /\ ops[Len(ops)].k = "Mul" THEN Len(ops) - 1 ELSE Len(ops)
            total[i \in 0..n] == IF i = 0 THEN Num(0) ELSE RAdd(total[i - 1], ops[i].v)
        IN  (/\ n >= 1
             /\ \A i \in 1..n : ops[i].k = "Sum"
             /\ nodes[base].kind = "Node" /\ nodes[base].op = NoOp)
            => /\ nodes[h].inputs = <<base>>
               /\ n = Len(ops)
                    => nodes[h].op = ScalarOp(OpScalarKind("Sum", total[n]))
               /\ (n < Len(ops) /\ lastMat.returned /\ lastMat.root = h)
                    => copied_iter(lastMat.result[1], heap)
                         = [k \in 1..nodes[h].layout.len |->
                              RMul(RAdd(copied_iter(nodes[nodes[base].inputs[1]].data[1],
                                                    heap)[k],
                                        total[n]),
                                   ops[Len(ops)].v)]

\* Two scalars were added to t.as_promise(), the sum multiplied by 2 and
\* the product materialized.
C12_Witness ==
    /\ lastMat.returned
    /\ Len(applied[lastMat.root].ops) = 3
    /\ applied[lastMat.root].ops[1].k = "Sum"
    /\ applied[lastMat.root].ops[2].k = "Sum"
    /\ applied[lastMat.root].ops[3].k = "Mul"
    /\ nodes[applied[lastMat.root].base].op = NoOp

\* C13: a ScalarOp child over a ScalarOp parent is rewritten as the fusion
\* table says, over the parent's inputs: Sum,Sum -> Sum(s1+s2); Sum,Sub ->
\* Sum(s1-s2); Sub,Sum -> Sum(-s1+s2); Sub,Sub -> Sum(-s1-s2); Mul,Mul ->
\* Mul(s1*s2); Mul,Div -> Mul(s1/s2); Div,Mul -> Mul(s2/s1); Div,Div ->
\* Div(s1*s2); any other pair -> FusedScalar([parent, child]).
C13_FusionTable ==
    (/\ lastCall.name = "scalar"
     /\ nodes[lastCall.args[1]].op.k = "ScalarOp")
    => LET p == nodes[lastCall.args[1]].op.ops[1]
           c == lastCall.op.ops[1]
           expected ==
             CASE p.k = "Sum" /\ c.k = "Sum" ->
                    ScalarOp(OpScalarKind("Sum", RAdd(p.v, c.v)))
               [] p.k = "Sum" /\ c.k = "Sub" ->
                    ScalarOp(OpScalarKind("Sum", RSub(p.v, c.v)))
               [] p.k = "Sub" /\ c.k = "Sum" ->
                    ScalarOp(OpScalarKind("Sum", RAdd(RNeg(p.v), c.v)))
               [] p.k = "Sub" /\ c.k = "Sub" ->
                    ScalarOp(OpScalarKind("Sum", RSub(RNeg(p.v), c.v)))
               [] p.k = "Mul" /\ c.k = "Mul" ->
                    ScalarOp(OpScalarKind("Mul", RMul(p.v, c.v)))
               [] p.k = "Mul" /\ c.k = "Div" ->
                    ScalarOp(OpScalarKind("Mul", RDiv(p.v, c.v)))
               [] p.k = "Div" /\ c.k = "Mul" ->
                    ScalarOp(OpScalarKind("Mul", RDiv(c.v, p.v)))
               [] p.k = "Div" /\ c.k = "Div" ->
                    ScalarOp(OpScalarKind("Div", RMul(p.v, c.v)))
               [] OTHER -> FusedScalar(<<p, c>>)
       IN  /\ nodes[lastCall.node].op = expected
           /\ nodes[lastCall.node].inputs = nodes[lastCall.args[1]].inputs

\* A Mul child has been built over a Div parent with another constant.
C13_Witness ==
    /\ lastCall.name = "scalar"
    /\ nodes[lastCall.args[1]].op.k = "ScalarOp"
    /\ nodes[lastCall.args[1]].op.ops[1].k = "Div"
    /\ lastCall.op.ops[1].k = "Mul"
    /\ lastCall.op.ops[1].v # nodes[lastCall.args[1]].op.ops[1].v

\* C14: a build keeps the requested op and inputs whenever the op is not
\* a ScalarOp, or its input is an Edge or a member whose op is neither
\* ScalarOp nor FusedScalar; otherwise the new node takes the inputs of
\* that parent; and no build changes a member that was already there.
C14_FusionFrame ==
    [][(/\ Len(nodes') = Len(nodes) + 1
        /\ lastCall'.name \in {"as_promise", "scalar", "binary", "view", "cache"})
       => /\ \A h \in 1..Len(nodes) : nodes'[h] = nodes[h]
          /\ IF \/ lastCall'.op.k # "ScalarOp"
                \/ nodes[lastCall'.args[1]].kind = "Edge"
                \/ nodes[lastCall'.args[1]].op.k \notin {"ScalarOp", "FusedScalar"}
             THEN /\ nodes'[lastCall'.node].op = lastCall'.op
                  /\ nodes'[lastCall'.node].inputs = lastCall'.args
             ELSE /\ nodes'[lastCall'.node].op.k \in {"ScalarOp", "FusedScalar"}
                  /\ nodes'[lastCall'.node].inputs = nodes[lastCall'.args[1]].inputs
      ]_vars

\* A scalar op has been fused into its parent.
C14_Witness ==
    /\ lastCall.name = "scalar"
    /\ nodes[lastCall.node].inputs # lastCall.args

C16_ViewRoundTrip ==
    /\ (lastCall.name = "view" /\ lastCall.err = "")
         => nodes[lastCall.node].layout.shape = lastCall.shape
    /\ \A v \in 1..Len(nodes) :
         (nodes[v].op.k = "View" /\ nodes[nodes[v].inputs[1]].kind = "Edge")
         => (nodes[v].layout.shape = nodes[nodes[v].inputs[1]].layout.shape
               => nodes[v].layout = nodes[nodes[v].inputs[1]].layout)
    /\ \A v \in 1..Len(nodes) :
         (/\ nodes[v].op.k = "View"
          /\ nodes[nodes[v].inputs[1]].op.k = "View"
          /\ nodes[nodes[nodes[v].inputs[1]].inputs[1]].kind = "Edge")
         => (nodes[v].layout.shape
               = nodes[nodes[nodes[v].inputs[1]].inputs[1]].layout.shape
               => nodes[v].layout = nodes[nodes[nodes[v].inputs[1]].inputs[1]].layout)
    /\ (lastMat.returned /\ nodes[lastMat.root].op.k = "View")
         => lastMat.result[1].layout = nodes[lastMat.root].layout

\* A tensor has been viewed under another shape, that view viewed under
\* the tensor's shape again and materialized.
C16_Witness ==
    /\ lastMat.returned
    /\ nodes[lastMat.root].op.k = "View"
    /\ nodes[nodes[lastMat.root].inputs[1]].op.k = "View"
    /\ nodes[nodes[nodes[lastMat.root].inputs[1]].inputs[1]].kind = "Edge"
    /\ nodes[nodes[lastMat.root].inputs[1]].layout.shape # nodes[lastMat.root].layout.shape
    /\ nodes[lastMat.root].layout.shape
         = nodes[nodes[nodes[lastMat.root].inputs[1]].inputs[1]].layout.shape

\* The start a range resolves to in a dimension of extent `ext`: a negative
\* bound -i stands for ext - i, an open start for 0; dimensions past the
\* range list are taken whole.
ResolvedStart(range, d, ext) ==
    IF d > Len(range) \/ range[d].start.b = "Beginning" THEN 0
    ELSE IF range[d].start.b = "ReverseIndex" THEN ext - range[d].start.i
    ELSE range[d].start.i

ResolvedEnd(range, d, ext) ==
    IF d > Len(range) \/ range[d].end.b = "End" THEN ext
    ELSE IF range[d].end.b = "ReverseIndex" THEN ext - range[d].end.i
    ELSE range[d].end.i

\* The positions offset + SUM_d i[d] * stride[d] of the indices i below
\* `shape`, in row-major order of i.
RowMajor(offset, shape, stride) ==
    LET n == Len(shape)
        idx(k, d) == (k \div Product(SubSeq(shape, d + 1, n))) % shape[d]
        at[k \in 0..(Product(shape) - 1), d \in 0..n] ==
            IF d = 0 THEN offset ELSE at[k, d - 1] + idx(k, d) * stride[d]
    IN  [k \in 1..Product(shape) |-> at[k - 1, n]]

\* The offset the rule gives a slice with `range` of a container with
\* this offset and layout.
RuleOffset(offset, layout, range) ==
    LET acc[d \in 0..Len(layout.shape)] ==
            IF d = 0 THEN offset
            ELSE acc[d - 1] + ResolvedStart(range, d, layout.shape[d]) * layout.stride[d]
    IN  acc[Len(layout.shape)]

\* s, built as c.slice(range), follows the rule.
FollowsSliceRule(s, c, range) ==
    /\ s.layout.shape = [d \in 1..Len(c.layout.shape) |->
                            ResolvedEnd(range, d, c.layout.shape[d])
                                - ResolvedStart(range, d, c.layout.shape[d])]
    /\ s.offset = RuleOffset(Dimension_offset(c), c.layout, range)
    /\ s.layout.stride = c.layout.stride
    /\ s.layout.adj_stride = calculate_adjacent_dim_stride(c.layout.stride, s.layout.shape)

\* The ranges r1 and then r2 composed, on a container of this shape: the
\* starts add up.
ComposedStarts(shape, r1, r2) ==
    [d \in 1..Len(shape) |->
        SliceRange_from_RangeFrom(
            ResolvedStart(r1, d, shape[d])
              + ResolvedStart(r2, d, ResolvedEnd(r1, d, shape[d])
                                       - ResolvedStart(r1, d, shape[d])))]

\* s = (p.slice(r1)).slice(r2) addresses what the single slice of p with
\* the composed ranges addresses: the starts add up, the extents are s's.
ComposesWith(s, p, r1, r2) ==
    RawTensorSlice_iter(s)
        = RowMajor(RuleOffset(Dimension_offset(p), p.layout,
                              ComposedStarts(p.layout.shape, r1, r2)),
                   s.layout.shape, p.layout.stride)

\* C17: every slice c.slice(range) has shape[d] = end[d] - start[d] in the
\* ranged dimensions and c's extent in the others, offset = c's offset +
\* SUM_d start[d] * stride[d], c's strides, and the adj_stride computed from
\* those strides and the new shape, a negative bound -i standing for
\* shape[d] - i; and a slice of a slice addresses the elements the single
\* slice with the composed ranges addresses.
C17_SliceRule ==
    \A s \in 1..Len(slices) :
        origin[s].name = "slice"
        => /\ FollowsSliceRule(slices[s], slices[origin[s].container], origin[s].range)
           /\ origin[origin[s].container].name = "slice"
              => ComposesWith(slices[s],
                              slices[origin[origin[s].container].container],
                              origin[origin[s].container].range, origin[s].range)

\* Every bound of `range` lies within `shape`: 0 <= start < end <= extent.
WithinShape(range, shape) ==
    \A d \in 1..Len(range) :
        /\ 0 <= ResolvedStart(range, d, shape[d])
        /\ ResolvedStart(range, d, shape[d]) < ResolvedEnd(range, d, shape[d])
        /\ ResolvedEnd(range, d, shape[d]) <= shape[d]

\* How often the traversal `ps` visits position x.
Visits(ps, x) == Cardinality({k \in 1..Len(ps) : ps[k] = x})

\* The traversal `ps` visits no position more often than `qs` does.
Contained(ps, qs) == \A k \in 1..Len(ps) : Visits(ps, ps[k]) <= Visits(qs, ps[k])

\* C18: iterating a slice whose bounds lie within its parent's shape visits
\* no buffer position more often than iterating the parent does; and the
\* slice [.., 1..2, 1..2] of srange(27, [3,3,3]) has shape [3,1,1] and its
\* iterator yields exactly 4, 13, 22.
C18_SliceContainment ==
    /\ \A s \in 1..Len(slices) :
          (/\ origin[s].name = "slice"
           /\ WithinShape(origin[s].range, slices[origin[s].container].layout.shape))
          => Contained(Positions(slices, s, heap),
                       Positions(slices, origin[s].container, heap))
    /\ \A s \in 1..Len(slices) :
          (/\ origin[s].name = "slice"
           /\ slices[origin[s].container].kind = "RawTensor"
           /\ slices[origin[s].container].layout.shape = <<3, 3, 3>>
           /\ origin[s].range = <<SliceRange_from_RangeFull, SliceRange_from_Range(1, 2),
                                  SliceRange_from_Range(1, 2)>>)
          => /\ slices[s].layout.shape = <<3, 1, 1>>
             /\ (lastSlice.name = "iter" /\ lastSlice.container = s)
                => lastSlice.yields = <<Num(4), Num(13), Num(22)>>

\* Some ranged dimension has start >= end.
StartNotBelowEnd(range, shape) ==
    \E d \in 1..Len(range) :
        ResolvedStart(range, d, shape[d]) >= ResolvedEnd(range, d, shape[d])

\* The slice of c with `range` would address a position outside a buffer
\* of `len` elements.
AddressesOutside(c, range, len) ==
    \E x \in Range(RowMajor(RuleOffset(Dimension_offset(c), c.layout, range),
                            [d \in 1..Len(c.layout.shape) |->
                                ResolvedEnd(range, d, c.layout.shape[d])
                                    - ResolvedStart(range, d, c.layout.shape[d])],
                            c.layout.stride)) :
        x \notin 0..(len - 1)

\* C19: c.slice(range) panics in the debug build exactly when some ranged
\* dimension has start >= end or the slice would address a position
\* outside the data of the base tensor; and a slice whose ranges all lie
\* within c's shape is accepted, also when c is a slice with an offset.
C19_DebugPanics ==
    lastSlice.name = "slice"
    => /\ lastSlice.result = 0
          <=> \/ StartNotBelowEnd(lastSlice.range, slices[lastSlice.container].layout.shape)
              \/ AddressesOutside(slices[lastSlice.container], lastSlice.range,
                                  Len(heap[slices[BaseOf(slices, lastSlice.container)].buffer]))
       /\ WithinShape(lastSlice.range, slices[lastSlice.container].layout.shape)
          => lastSlice.result # 0

\* The two dimensions (1-based) the call recorded in `call` exchanges on a
\* layout of rank n: the first and the last for transposed, axis and its
\* mirror for transposed_n.
SwappedDims(call, n) ==
    IF call.name = "transposed" THEN <<1, n>> ELSE <<call.axis + 1, n - call.axis>>

\* `stride` with the entries of the two dimensions exchanged.
Exchanged(stride, ij) ==
    [d \in 1..Len(stride) |->
        IF d = ij[1] THEN stride[ij[2]] ELSE IF d = ij[2] THEN stride[ij[1]] ELSE stride[d]]

\* The call recorded in `call`, made on a tensor of layout `layout`.
TransposedAgain(call, layout) ==
    IF call.name = "transposed" THEN RawTensor_transposed([layout |-> layout], 0)
    ELSE RawTensor_transposed_n([layout |-> layout], 0, call.axis)

\* r is what the call gave for the RawTensor t.
IsTransposeOf(r, t, call) ==
    /\ r.layout.shape = t.layout.shape
    /\ r.layout.stride = Exchanged(t.layout.stride, SwappedDims(call, Len(t.layout.stride)))
    /\ r.layout.adj_stride = calculate_adjacent_dim_stride(r.layout.stride, r.layout.shape)
    /\ r.offset = 0
    /\ TransposedAgain(call, r.layout).layout.shape = t.layout.shape
    /\ TransposedAgain(call, r.layout).layout.stride = t.layout.stride
    /\ TransposedAgain(call, r.layout).layout.adj_stride = t.layout.adj_stride

C21_FromShapeLayout ==
    \A h \in 1..Len(nodes) :
        nodes[h].kind = "Edge"
        => /\ nodes[h].layout.len = Product(nodes[h].layout.shape)
           /\ \A k \in 1..Len(nodes[h].layout.shape) :
                 nodes[h].layout.stride[k]
                    = Product(SubSeq(nodes[h].layout.shape, k + 1,
                                     Len(nodes[h].layout.shape)))
           /\ nodes[h].layout.adj_stride = [k \in 1..Len(nodes[h].layout.shape) |-> 1]
           /\ calculate_adjacent_dim_stride(nodes[h].layout.stride, nodes[h].layout.shape)
                 = [k \in 1..Len(nodes[h].layout.shape) |-> 1]
           /\ is_contiguous(nodes[h].layout)

\* A tensor of rank 3 with three different strides.
C21_Witness ==
    \E h \in 1..Len(nodes) :
        /\ nodes[h].kind = "Edge"
        /\ nodes[h].layout.shape = <<2, 3, 2>>
        /\ nodes[h].layout.stride = <<6, 2, 1>>

\* xs times s, element by element.
Scaled(xs, s) == [i \in 1..Len(xs) |-> RMul(xs[i], s)]

\* The elements of an operand that is a tensor, or a tensor times s.
OperandValues(N, h, hp) ==
    IF N[h].kind = "Edge" THEN copied_iter(N[h].data[1], hp)
    ELSE Scaled(copied_iter(N[N[h].inputs[1]].data[1], hp), N[h].op.ops[1].v)

\* x op y, element by element.
Elementwise(k, x, y) == [i \in 1..Len(x) |-> vd(k, x[i], y[i])]

\* The chunks start where the one before ended, the first at 0, and end at n.
ChunksTile(chunks, n) ==
    /\ \A c \in 1..Len(chunks) :
          /\ Len(chunks[c].packing_buffer) \in 1..PACKING_BUFFER_SIZE
          /\ chunks[c].absolute_buffer_position
                = IF c = 1 THEN 0
                  ELSE chunks[c - 1].absolute_buffer_position
                         + Len(chunks[c - 1].packing_buffer)
    /\ n = IF Len(chunks) = 0 THEN 0
           ELSE chunks[Len(chunks)].absolute_buffer_position
                  + Len(chunks[Len(chunks)].packing_buffer)

\* The root materialized last is a binary op over tensors or tensors times s.
BinaryOverOperands ==
    /\ lastMat.returned
    /\ nodes[lastMat.root].op.k \in BinaryKinds
    /\ \A i \in 1..2 :
          \/ nodes[nodes[lastMat.root].inputs[i]].kind = "Edge"
          \/ /\ nodes[nodes[lastMat.root].inputs[i]].op.k = "ScalarOp"
             /\ nodes[nodes[lastMat.root].inputs[i]].op.ops[1].k = "Mul"
             /\ nodes[nodes[nodes[lastMat.root].inputs[i]].inputs[1]].kind = "Edge"

\* The buffer the chunks are taken from: operand 1 when it is a tensor,
\* else a buffer of operand 1's layout.
ChunkedOperand ==
    IF nodes[nodes[lastMat.root].inputs[2]].kind = "Edge"
    THEN nodes[nodes[lastMat.root].inputs[2]].data[1]
    ELSE lastMat.result[1]

HeldBuffers(N) ==
    {N[n].data[1].storage : n \in {m \in 1..Len(N) : N[m].kind = "Edge"}}
    \cup {N[n].cache[1].storage : n \in FilledCaches(N)}

\* The buffers of the computation-cache entries of E that are still
\* pending in F.
PendingBuffers(E, F) ==
    {E.cache[id].storage : id \in DOMAIN E.cache \cap DOMAIN F.cache}

\* From E to F no held and no pending buffer has changed.
StepKeeps(E, F) ==
    \A s \in HeldBuffers(E.N) \cup PendingBuffers(E, F) :
        /\ s \in DOMAIN F.heap
        /\ F.heap[s] = E.heap[s]

\* Every iteration of the walk of compute() from E on, and the root's
\* kernel after it, keeps the held and the pending buffers.
RECURSIVE WalkKeeps(_, _, _, _)
WalkKeepsNext(E, F, sorted_dag, i, h) ==
    StepKeeps(E, F) /\ WalkKeeps(F, sorted_dag, i - 1, h)

WalkKeeps(E, sorted_dag, i, h) ==
    IF E.panic # "none" THEN TRUE
    ELSE IF i = 0 THEN StepKeeps(E, run_op(E, h).E)
    ELSE WalkKeepsNext(E, compute_step(E, sorted_dag[i]), sorted_dag, i, h)

SortedKeeps(N, h, hp, ys, s) ==
    WalkKeeps(Env(N, EmptyMap, s.reference_counter, hp, <<>>, ys, "none"),
              s.sorted, Len(s.sorted), h)

\* Every kernel of compute() on the node of handle h keeps the held and
\* the pending buffers.
KernelsKeep(N, h, hp, ys) ==
    (N[h].kind = "Cache" /\ is_cache_filled(N, h))
    \/ SortedKeeps(N, h, hp, ys, topological_sort(N, h))

\* C23: materialize() changes the contents of no buffer that an Edge, a
\* filled CacheNode slot or another pending computation-cache entry holds,
\* neither over the call as a whole nor at any of its kernels.
C23_MaterializeFrame ==
    [][lastCall'.name = "materialize"
       => /\ \A s \in HeldBuffers(nodes) : s \in DOMAIN heap' /\ heap'[s] = heap[s]
          /\ KernelsKeep(nodes, lastCall'.args[1], heap, yields)]_vars

\* A materialize() of two kernels or more has returned over a graph that
\* holds a tensor and a CacheNode filled earlier.
C23_Witness ==
    /\ lastCall.name = "materialize"
    /\ lastMat.returned
    /\ Len(lastMat.order) >= 2
    /\ lastMat.filled # {}
    /\ \E n \in 1..Len(nodes) : nodes[n].kind = "Edge"

\* C24: the slot of a CacheNode goes from empty to filled at most once and
\* what it holds never changes afterwards, whatever the order in which the
\* calls of materialize() that reach it do their steps: the first writer
\* wins.
C24_SlotWrittenOnce ==
    [][\A c \in FilledCaches(nodes) :
          /\ nodes'[c].cache = nodes[c].cache
          /\ heap'[nodes[c].cache[1].storage] = heap[nodes[c].cache[1].storage]]_vars

\* A CacheNode has given a tensor that is not the one its slot holds: a
\* second writer came after the first and was refused.
C24_Witness ==
    \E c \in FilledCaches(nodes) : \E i \in 1..Len(yields[c]) :
        yields[c][i].storage # nodes[c].cache[1].storage

\* The ids of the members built, returned to the program or not yet.
IdsOut ==
    {nodes[n].id : n \in 1..Len(nodes)}
    \cup {pending[j].node.id : j \in {k \in 1..Len(pending) : pending[k].call = "new"}}

\* How many members have been built.
MembersOut ==
    Len(nodes) + Cardinality({k \in 1..Len(pending) : pending[k].call = "new"})

\* C25: every Edge and OpNode gets at its construction an id that differs
\* from and is greater than every id handed out before, also when the
\* constructors run in between one another; a CacheNode has no id but the
\* one of its inner OpNode, so each construction takes exactly one id.
C25_FreshIds ==
    [][/\ Cardinality(IdsOut') = MembersOut'
       /\ NEXT_ID' - NEXT_ID = Cardinality(IdsOut' \ IdsOut)
       /\ \A id \in IdsOut' \ IdsOut :
             /\ \A e \in IdsOut : id > e
             /\ id >= NEXT_ID /\ id < NEXT_ID'
       /\ \A c \in 1..Len(nodes') :
             nodes'[c].kind = "Cache" => get_id(nodes', c) = nodes'[c].id]_vars

\* Two constructors ran in between one another: the member returned
\* first holds the greater id; and a CacheNode has been built.
C25_Witness ==
    /\ \E m, n \in 1..Len(nodes) : m < n /\ nodes[m].id > nodes[n].id
    /\ \E c \in 1..Len(nodes) : nodes[c].kind = "Cache"

\* The results among the first k of `out` that are items.
Given(out, k) == {i \in 1..k : out[i] # None}

\* C26: over a layout of rank 1 or more whose adj_stride was derived from
\* its stride and shape, SliceIter gives exactly len items and then None at
\* every later call, size_hint is the number of items still to come, and
\* the k-th item is the one at the flat position SUM_d idx_k[d] * stride[d]
\* of the k-th index in row-major order.
C26_SliceIterRowMajor ==
    iterator.kind = "SliceIter"
    => /\ \A k \in 1..Len(iterator.out) :
             iterator.out[k]
               = IF k <= Product(iterator.shape)
                 THEN Some(RowMajor(0, iterator.shape, iterator.stride)[k])
                 ELSE None
       /\ SliceIter_size_hint(iterator)[1]
            = Product(iterator.shape)
                - Cardinality(Given(iterator.out, Len(iterator.out)))
       /\ SliceIter_size_hint(iterator)[2] = <<SliceIter_size_hint(iterator)[1]>>
       /\ panic = "none"

\* A transposed layout of rank 3 has been iterated to its end and asked
\* twice more.
C26_Witness ==
    /\ iterator.kind = "SliceIter"
    /\ iterator.shape = <<2, 3, 2>>
    /\ iterator.stride = <<1, 2, 6>>
    /\ Len(iterator.out) = 14
    /\ iterator.out[12] = Some(11)
    /\ iterator.out[14] = None

\* The events of this kind among the first k of `out`.
EventsIn(out, k, kind) == {i \in 1..k : out[i] # None /\ out[i][2][1] = kind}

ValuesIn(out, k) == EventsIn(out, k, "Value")

\* How many dimensions are open after the first k events of `out`.
Depth(out, k) ==
    Cardinality(EventsIn(out, k, "EnterDimension"))
      - Cardinality(EventsIn(out, k, "ExitDimension"))

\* The k-th event of `out` is where the nesting allows it, `before` being
\* the number of dimensions open when it comes and `values` the number of
\* Values given up to it.  The dimensions open are 0, .., before - 1, since
\* an EnterDimension(d) comes only with d dimensions open.
NestedAt(out, k, before, values, rank, len, order) ==
    /\ k = 1 => out[k] = Some(EnterDimension(0))
    /\ k > 1 /\ out[k] # None => out[k - 1] # None /\ before > 0
    /\ out[k] = None
         => /\ k > 1
            /\ out[k - 1] \in {None, Some(ExitDimension(0))}
            /\ before = 0
            /\ values = len
    /\ out[k] # None /\ out[k][2][1] = "EnterDimension"
         => /\ out[k][2][2] = before
            /\ before + 1 <= rank
    /\ out[k] # None /\ out[k][2][1] = "ExitDimension"
         => /\ before > 0
            /\ out[k][2][2] = before - 1
    /\ out[k] # None /\ out[k][2][1] = "Value"
         => /\ before = rank
            /\ values <= len
            /\ out[k][2][2] = order[values]

Nested(out, rank, len, order) ==
    \A k \in 1..Len(out) :
        NestedAt(out, k, Depth(out, k - 1), Cardinality(ValuesIn(out, k)),
                 rank, len, order)

\* C27: over a layout of rank 1 or more with positive dimensions the
\* events of InformedSliceIter are properly nested: the first is
\* EnterDimension(0), each ExitDimension(d) closes the last dimension
\* opened, which is d, no more than rank dimensions are open, a Value comes
\* only with all of them open, the Values are the len items of SliceIter
\* in its order, and after the ExitDimension(0) that closes the first
\* dimension every call gives None.
C27_InformedNesting ==
    iterator.kind = "InformedSliceIter"
    => /\ panic = "none"
       /\ Nested(iterator.out, Len(iterator.shape), iterator.len,
                 SliceIter_walk(0, [i \in 1..Len(iterator.shape) |-> 0], iterator.shape,
                                iterator.adj_stride, iterator.len))

\* The informed walk of a transposed layout of rank 3 has ended and was
\* asked twice more.
C27_Witness ==
    /\ iterator.kind = "InformedSliceIter"
    /\ iterator.shape = <<2, 3, 2>>
    /\ iterator.stride = <<1, 2, 6>>
    /\ iterator.current_state = StepInfo_End
    /\ Cardinality(ValuesIn(iterator.out, Len(iterator.out))) = 12
    /\ iterator.out[Len(iterator.out)] = None
    /\ iterator.out[Len(iterator.out) - 1] = None
    /\ iterator.out[Len(iterator.out) - 2] = Some(ExitDimension(0))

NoDuplicates(q) == Cardinality(Range(q)) = Len(q)

\* A call of materialize() is running.
Running == pending # <<>>

\* The members the sort has not yet counted.
Uncounted(c) == {n \in 1..Len(nodes) : get_id(nodes, n) \notin DOMAIN c.reference_counter}

RECURSIVE Weight(_)
Weight(S) ==
    IF S = {} THEN 0
    ELSE LET n == CHOOSE x \in S : TRUE
         IN  Len(nodes[n].inputs) + 1 + Weight(S \ {n})

\* What is left of a call: the queue of the sort and the inputs that may
\* still join it, then the members the walk has yet to visit, then the
\* root.
Remaining(c) ==
    IF c.phase = "sort"
    THEN 2 * MaxLeft + 2 + Len(c.current_inputs) + Weight(Uncounted(c))
    ELSE IF c.phase = "walk" THEN MaxLeft + 2 + c.i
    ELSE 1

\* The sort enqueues the inputs of no member twice and lists no member
\* twice; the walk goes through sorted from its last member to its first,
\* once each, and has been to all of them when it comes to the root.
SortAndWalkOnce(c) ==
    /\ NoDuplicates(c.enqueued)
    /\ NoDuplicates(c.sorted)
    /\ c.phase # "sort"
         => /\ c.current_inputs = <<>>
            /\ c.sorted = topological_sort(nodes, c.root).sorted
            /\ c.visited = SubSeq(Reverse(c.sorted), 1, Len(c.visited))
    /\ c.phase = "root" => c.visited = Reverse(c.sorted)

\* C28: materialize() on a finite DAG terminates.  While a call runs it
\* is never suspended, and every iteration leaves less to do: the queue
\* of the sort runs empty after the inputs of each member were enqueued at
\* most once, the walk visits each sorted member once, and then the root
\* is evaluated and the call ends; a call that returns has evaluated its
\* root last.
C28_MaterializeTerminates ==
    [][/\ Running
         => /\ panic = "none"
            /\ pending[1].phase \in {"sort", "walk", "root"}
            /\ SortAndWalkOnce(pending[1])
            /\ Remaining(pending[1]) <= 3 * MaxLeft + 2
       /\ Running /\ Running' => Remaining(pending'[1]) < Remaining(pending[1])
       /\ Running /\ pending[1].phase = "root" => ~Running'
       /\ Running /\ ~Running'
         => /\ lastMat'.root = pending[1].root
            /\ lastMat'.returned \/ panic' # "none"
            /\ lastMat'.returned
                 => /\ pending[1].phase = "root"
                    /\ lastMat'.order # <<>>
                    /\ lastMat'.order[Len(lastMat'.order)] = pending[1].root]_vars

\* A call has counted a member twice, has visited two members and has
\* come to its root.
C28_Witness ==
    /\ Running
    /\ pending[1].phase = "root"
    /\ Len(pending[1].visited) >= 2
    /\ \E id \in DOMAIN pending[1].reference_counter : pending[1].reference_counter[id] >= 2

\* The members among the inputs of n, the inputs of those, and so on.
Ancestors(N, n) == Reach(N, Range(N[n].inputs), {})

\* C29: after any sequence of constructions every input of every OpNode
\* and CacheNode has an id strictly smaller than the node's own id, also
\* when fusion gave the node the inputs of its parent; so no node is among
\* its own inputs, however far up.
C29_InputsOlder ==
    \A n \in 1..Len(nodes) :
        /\ nodes[n].kind \in {"Node", "Cache"}
             => \A k \in 1..Len(nodes[n].inputs) :
                    get_id(nodes, nodes[n].inputs[k]) < get_id(nodes, n)
        /\ n \notin Ancestors(nodes, n)

\* A CacheNode over a node made by a second scalar operator, which fusion
\* gave the input of its parent, the tensor, and not the parent.
C29_Witness ==
    /\ lastCall.name = "cache"
    /\ nodes[Len(nodes)].kind = "Cache"
    /\ nodes[Len(nodes)].inputs = <<lastCall.args[1]>>
    /\ Len(applied[lastCall.args[1]].ops) = 2
    /\ Len(nodes[lastCall.args[1]].inputs) = 1
    /\ nodes[nodes[lastCall.args[1]].inputs[1]].kind = "Edge"
    /\ \E m \in 1..(lastCall.args[1] - 1) :
          /\ nodes[m].op.k = "ScalarOp"
          /\ nodes[m].inputs = nodes[lastCall.args[1]].inputs

\* The positions the traversal of container c visits that lie outside the
\* buffer of its base.
Outside(c) ==
    {k \in 1..Len(Positions(slices, c, heap)) :
        Positions(slices, c, heap)[k]
            \notin 0..(Len(heap[slices[BaseOf(slices, c)].buffer]) - 1)}

\* C30: every flat position visited when the layout that transposed() or
\* transposed_n() returned is traversed lies inside the buffer, for every
\* shape, also when the dimensions exchanged have different extents: an
\* iteration of such a slice reads no position outside and does not panic.
C30_TransposeInBounds ==
    /\ lastSlice.name = "iter"
    /\ origin[lastSlice.container].name \in {"transposed", "transposed_n"}
    => /\ Outside(lastSlice.container) = {}
       /\ panic = "none"

====
